---- MODULE Spec2Model ----
(***************************************************************************)
(* Commission Tracker: the application state of App (current user,          *)
(* profiles, teams, commission entries, localStorage mirror), the           *)
(* CommissionList handlers (inline update, delete, manual add), the         *)
(* InvoiceReview save gates and the InvoiceUpload queue pipelines.          *)
(*                                                                         *)
(* Numbers are integers.  Money inputs are whole hundreds, so that          *)
(* netTotal * (rate / 100) is exact; floating-point rounding is not         *)
(* modelled.  Text typed into an <input> is a string, and Number() parses   *)
(* it.  A JavaScript undefined in an optional string field is Undefined.    *)
(***************************************************************************)
EXTENDS Integers, Sequences, FiniteSets, TLC

VARIABLES
    user,           \* App: useState<Profile | null>
    profiles,       \* App: useState<Profile[]>
    teams,          \* App: useState<Team[]>
    commissions,    \* App: useState<CommissionEntry[]>
    currentView,    \* App: useState<ViewState>
    isLoading,      \* App: useState(true)
    reviewFile,     \* App: useState<File | null>
    reviewData,     \* App: useState<any>
    localStorage,   \* window.localStorage: a function from the keys present
    viewMode,       \* CommissionList: 'personal' | 'team'
    invalidFields,  \* CommissionList: Record<string, boolean>
    sortConfig,     \* CommissionList: { key, direction } | null
    searchTerm,     \* CommissionList: useState('')
    statusFilter,   \* CommissionList: CommissionStatus | 'all'
    monthFilter,    \* CommissionList: useState(''), the value of an <input type="month">
    userFilter,     \* CommissionList: useState('all')
    isAddModalOpen, \* CommissionList: useState(false)
    items,          \* InvoiceReview: draft line items
    savedIds,       \* InvoiceReview: Set<number>
    modalConfig,    \* InvoiceReview: the confirmation modal, or Null
    queue,          \* InvoiceUpload: useState<UploadItem[]>
    pipelines,      \* InvoiceUpload: the running startUploadAndParse calls
    uuidCounter,    \* how many ids crypto.randomUUID() has handed out
    created,        \* how many entries the manual-add form has created (bounded)
    saves,          \* how many entries the invoice review has saved (bounded)
    statusEdits,    \* how many inline edits of a status or paid date were made (bounded)
    textEdits,      \* how many inline edits of a text field were made (bounded)
    deleted,        \* history: the ids of the entries whose delete was confirmed
    downloads,      \* the files XLSX.writeFile has handed to the browser (bounded)
    queueOps,       \* how many file batches and retries were started (bounded)
    editCount,      \* how many field edits have been made (bounded)
    lastOp          \* history: the handler that ran last, and its arguments

appVars    == <<user, profiles, teams, commissions, currentView, isLoading,
                reviewFile, reviewData, localStorage>>
filterVars == <<searchTerm, statusFilter, monthFilter, userFilter>>
listVars   == <<viewMode, invalidFields, sortConfig, filterVars, isAddModalOpen>>
reviewVars == <<items, savedIds, modalConfig>>
uploadVars == <<queue, pipelines>>
counters   == <<uuidCounter, created, saves, queueOps, editCount, statusEdits, textEdits,
                deleted, downloads>>
vars       == <<appVars, listVars, reviewVars, uploadVars, counters, lastOp>>

(***************************************************************************)
(* Bounds of the model.                                                     *)
(***************************************************************************)
MaxNewEntries == 1      \* entries created by the manual-add form
MaxSaves      == 2      \* entries saved by the invoice review
MaxEdits      == 1      \* inline edits of the other fields, and edits of a draft
MaxStatusEdits == 2     \* inline edits of the status and the two paid dates
MaxTextEdits  == 2      \* inline edits of the text fields
MaxExports    == 1      \* files written by the export
MaxQueueOps   == 2      \* files dropped on the upload queue, and retries

(***************************************************************************)
(* JavaScript values.                                                       *)
(***************************************************************************)
Undefined == "<undefined>"
Null      == [null |-> TRUE]

\* !v for an optional string: undefined and '' are falsy.
Falsy(v) == v \in {Undefined, ""}

\* x || y for numbers and for strings
OrNum(x, y) == IF x = 0 THEN y ELSE x

OrStr(x, y) == IF Falsy(x) THEN y ELSE x

Char(s, i) == SubSeq(s, i, i)

DigitVal(c) ==
    CASE c = "0" -> 0 [] c = "1" -> 1 [] c = "2" -> 2 [] c = "3" -> 3
      [] c = "4" -> 4 [] c = "5" -> 5 [] c = "6" -> 6 [] c = "7" -> 7
      [] c = "8" -> 8 [] c = "9" -> 9

RECURSIVE Digits(_)
Digits(s) ==
    IF Len(s) = 0 THEN 0
    ELSE 10 * Digits(SubSeq(s, 1, Len(s) - 1)) + DigitVal(Char(s, Len(s)))

\* Number(text) for the text of an <input type="number">: '' is 0.
Number(s) ==
    IF s = "" THEN 0
    ELSE IF Char(s, 1) = "-" THEN 0 - Digits(SubSeq(s, 2, Len(s)))
    ELSE Digits(s)

LowerChar(c) ==
    CASE c = "A" -> "a" [] c = "B" -> "b" [] c = "C" -> "c" [] c = "D" -> "d"
      [] c = "E" -> "e" [] c = "F" -> "f" [] c = "G" -> "g" [] c = "H" -> "h"
      [] c = "I" -> "i" [] c = "J" -> "j" [] c = "K" -> "k" [] c = "L" -> "l"
      [] c = "M" -> "m" [] c = "N" -> "n" [] c = "O" -> "o" [] c = "P" -> "p"
      [] c = "Q" -> "q" [] c = "R" -> "r" [] c = "S" -> "s" [] c = "T" -> "t"
      [] c = "U" -> "u" [] c = "V" -> "v" [] c = "W" -> "w" [] c = "X" -> "x"
      [] c = "Y" -> "y" [] c = "Z" -> "z" [] OTHER -> c

\* String.prototype.toLowerCase
RECURSIVE toLowerCase(_)
toLowerCase(s) ==
    IF Len(s) = 0 THEN ""
    ELSE LowerChar(Char(s, 1)) \o toLowerCase(SubSeq(s, 2, Len(s)))

\* String.prototype.trim (blanks only)
RECURSIVE trim(_)
trim(s) ==
    IF Len(s) = 0 THEN ""
    ELSE IF Char(s, 1) = " " THEN trim(SubSeq(s, 2, Len(s)))
    ELSE IF Char(s, Len(s)) = " " THEN trim(SubSeq(s, 1, Len(s) - 1))
    ELSE s

\* a < b for two strings: by code unit, a proper prefix first.  CodeOrder
\* lists the characters of the texts of the model in the order of their
\* codes.
CodeOrder == " -.0123456789ABCDEFGHIJKLMNOPQRSTUVWXYZ_abcdefghijklmnopqrstuvwxyz"

CharCode(c) == CHOOSE i \in 1..Len(CodeOrder) : Char(CodeOrder, i) = c

RECURSIVE StrLess(_, _)
StrLess(a, b) ==
    IF Len(b) = 0 THEN FALSE
    ELSE IF Len(a) = 0 THEN TRUE
    ELSE IF Char(a, 1) # Char(b, 1) THEN CharCode(Char(a, 1)) < CharCode(Char(b, 1))
    ELSE StrLess(SubSeq(a, 2, Len(a)), SubSeq(b, 2, Len(b)))

\* Array.prototype.map / some on a sequence (filter is SelectSeq)
MapSeq(s, F(_)) == [i \in 1..Len(s) |-> F(s[i])]

Some(s, P(_)) == \E i \in 1..Len(s) : P(s[i])

Range(s) == {s[i] : i \in 1..Len(s)}

(***************************************************************************)
(* JSON.stringify drops the keys whose value is undefined; reading a key    *)
(* that JSON.parse did not produce gives undefined again.                   *)
(***************************************************************************)
OptionalKeys == {"receipt_number", "client_paid_date", "company_paid_date",
                 "note", "file_name", "team_id", "manager_id"}

StringifyObject(o) ==
    [k \in {f \in DOMAIN o : ~(f \in OptionalKeys /\ o[f] = Undefined)} |-> o[k]]

ParseObject(j, keys) ==
    [k \in keys |-> IF k \in DOMAIN j THEN j[k] ELSE Undefined]

JSONstringify(arr) == [i \in 1..Len(arr) |-> StringifyObject(arr[i])]

JSONparse(text, keys) == [i \in 1..Len(text) |-> ParseObject(text[i], keys)]

EntryKeys == {"id", "user_id", "invoice_number", "receipt_number", "customer",
              "project", "amount_before_vat", "cost_before_vat", "commission_rate",
              "tax", "net_total", "net_to_pay", "invoice_month", "client_paid_date",
              "commission_status", "company_paid_date", "note", "file_name"}

ProfileKeys == {"id", "email", "full_name", "role", "default_commission_rate", "team_id"}

TeamKeys == {"id", "name", "manager_id"}

(***************************************************************************)
(* Mock data.                                                               *)
(***************************************************************************)
MOCK_TEAMS == <<
    [id |-> "team-1", name |-> "Design Squad", manager_id |-> "user-manager"],
    [id |-> "team-2", name |-> "Dev Team", manager_id |-> "user-admin"] >>

MOCK_PROFILES == <<
    [id |-> "user-admin", email |-> "admin@base44.com", full_name |-> "Admin Alice",
     role |-> "admin", default_commission_rate |-> 5, team_id |-> "team-2"],
    [id |-> "user-manager", email |-> "manager@base44.com", full_name |-> "Manager Bob",
     role |-> "manager", default_commission_rate |-> 5, team_id |-> "team-1"],
    [id |-> "user-1", email |-> "freelancer@base44.com", full_name |-> "Alex Freelancer",
     role |-> "user", default_commission_rate |-> 5, team_id |-> "team-1"],
    [id |-> "user-2", email |-> "designer@base44.com", full_name |-> "Sarah Designer",
     role |-> "user", default_commission_rate |-> 5, team_id |-> "team-1"] >>

MOCK_ENTRIES == <<
    [id |-> "1", user_id |-> "user-1", invoice_number |-> "INV-2023-001",
     receipt_number |-> "TI20230099", customer |-> "Acme Corp",
     project |-> "Website Redesign", amount_before_vat |-> 5000,
     cost_before_vat |-> 500, commission_rate |-> 5, tax |-> 0,
     net_total |-> 4500, net_to_pay |-> 225, invoice_month |-> "2023-10-01",
     client_paid_date |-> "2023-10-15", commission_status |-> "paid",
     company_paid_date |-> Undefined, note |-> "Initial deposit",
     file_name |-> "invoice_001.pdf"],
    [id |-> "2", user_id |-> "user-1", invoice_number |-> "INV-2023-005",
     receipt_number |-> Undefined, customer |-> "Stark Industries",
     project |-> "Security Audit", amount_before_vat |-> 12000,
     cost_before_vat |-> 0, commission_rate |-> 5, tax |-> 0,
     net_total |-> 12000, net_to_pay |-> 600, invoice_month |-> "2023-11-15",
     client_paid_date |-> Undefined, commission_status |-> "eligible",
     company_paid_date |-> Undefined, note |-> Undefined,
     file_name |-> "stark_inv.pdf"],
    [id |-> "3", user_id |-> "user-2", invoice_number |-> "INV-2023-999",
     receipt_number |-> Undefined, customer |-> "Wayne Enterprises",
     project |-> "Logo Design", amount_before_vat |-> 8000,
     cost_before_vat |-> 0, commission_rate |-> 5, tax |-> 0,
     net_total |-> 8000, net_to_pay |-> 400, invoice_month |-> "2023-11-20",
     client_paid_date |-> Undefined, commission_status |-> "unpaid",
     company_paid_date |-> Undefined, note |-> Undefined,
     file_name |-> Undefined] >>

(***************************************************************************)
(* localStorage and the persistence effects of App.                         *)
(***************************************************************************)
setItem(store, key, value) ==
    [k \in DOMAIN store \cup {key} |-> IF k = key THEN value ELSE store[k]]

removeItem(store, key) == [k \in DOMAIN store \ {key} |-> store[k]]

EmptyStorage == [k \in {} |-> Null]

\* The four useEffect hooks that follow a render: each one runs when its
\* state changed, and writes unless the state is null / empty.
PersistUser(store, old, new) ==
    IF new # old /\ new # Null THEN setItem(store, "app_user", StringifyObject(new))
    ELSE store

PersistCommissions(store, old, new) ==
    IF new # old /\ Len(new) > 0 THEN setItem(store, "app_commissions", JSONstringify(new))
    ELSE store

PersistProfiles(store, old, new) ==
    IF new # old /\ Len(new) > 0 THEN setItem(store, "app_profiles", JSONstringify(new))
    ELSE store

PersistTeams(store, old, new) ==
    IF new # old /\ Len(new) > 0 THEN setItem(store, "app_teams", JSONstringify(new))
    ELSE store

\* A state update of the commissions followed by its persistence effect.
setCommissions(new) ==
    /\ commissions' = new
    /\ localStorage' = PersistCommissions(localStorage, commissions, new)

(***************************************************************************)
(* The history record of the handler that ran last.                         *)
(***************************************************************************)
NoEntry == ""

\* `was` is the commission_status the entry had when the handler was called.
Op(name, id, field, value, answer, was) ==
    [op |-> name, id |-> id, field |-> field, value |-> value,
     answer |-> answer, was |-> was]

NoOp == Op("none", "", "", "", "", NoEntry)

(***************************************************************************)
(* Initial state: the first render of App, before the load effect.          *)
(***************************************************************************)
FreshList   ==
    /\ viewMode = "personal" /\ invalidFields = EmptyStorage /\ sortConfig = Null
    /\ searchTerm = "" /\ statusFilter = "all" /\ monthFilter = "" /\ userFilter = "all"
    /\ isAddModalOpen = FALSE
FreshReview == items = <<>> /\ savedIds = {} /\ modalConfig = Null
FreshUpload == queue = <<>> /\ pipelines = {}

Init ==
    /\ user = Null /\ profiles = <<>> /\ teams = <<>> /\ commissions = <<>>
    /\ currentView = "dashboard" /\ isLoading = TRUE
    /\ reviewFile = Null /\ reviewData = Null
    /\ localStorage = EmptyStorage
    /\ FreshList /\ FreshReview /\ FreshUpload
    /\ uuidCounter = 0 /\ created = 0 /\ saves = 0 /\ queueOps = 0 /\ editCount = 0 /\ statusEdits = 0 /\ textEdits = 0
    /\ deleted = {} /\ downloads = <<>>
    /\ lastOp = NoOp

ResetList   ==
    /\ viewMode' = "personal" /\ invalidFields' = EmptyStorage /\ sortConfig' = Null
    /\ searchTerm' = "" /\ statusFilter' = "all" /\ monthFilter' = "" /\ userFilter' = "all"
    /\ isAddModalOpen' = FALSE
ResetReview == items' = <<>> /\ savedIds' = {} /\ modalConfig' = Null
ResetUpload == queue' = <<>> /\ pipelines' = {}

(***************************************************************************)
(* App: load on mount, reload, logout, navigation, impersonation.           *)
(***************************************************************************)
Has(key) == key \in DOMAIN localStorage

\* The load effect (after the 1200 ms timer), and the persistence effects of
\* the render that follows it.
Mount ==
    /\ isLoading
    /\ LET p == IF Has("app_profiles")
                THEN JSONparse(localStorage["app_profiles"], ProfileKeys) ELSE MOCK_PROFILES
           t == IF Has("app_teams")
                THEN JSONparse(localStorage["app_teams"], TeamKeys) ELSE MOCK_TEAMS
           c == IF Has("app_commissions")
                THEN JSONparse(localStorage["app_commissions"], EntryKeys) ELSE MOCK_ENTRIES
           adminUser == IF \E i \in 1..Len(MOCK_PROFILES) : MOCK_PROFILES[i].role = "admin"
                        THEN MOCK_PROFILES[CHOOSE i \in 1..Len(MOCK_PROFILES) :
                                 /\ MOCK_PROFILES[i].role = "admin"
                                 /\ \A j \in 1..(i - 1) : MOCK_PROFILES[j].role # "admin"]
                        ELSE MOCK_PROFILES[1]
           u == IF Has("app_user")
                THEN ParseObject(localStorage["app_user"], ProfileKeys) ELSE adminUser
           s1 == IF Has("app_profiles") THEN localStorage
                 ELSE setItem(localStorage, "app_profiles", JSONstringify(MOCK_PROFILES))
           s2 == IF Has("app_teams") THEN s1
                 ELSE setItem(s1, "app_teams", JSONstringify(MOCK_TEAMS))
           s3 == IF Has("app_commissions") THEN s2
                 ELSE setItem(s2, "app_commissions", JSONstringify(MOCK_ENTRIES))
           s4 == IF Has("app_user") THEN s3
                 ELSE setItem(s3, "app_user", StringifyObject(adminUser))
       IN  /\ profiles' = p /\ teams' = t /\ commissions' = c /\ user' = u
           /\ localStorage' =
                  PersistTeams(PersistProfiles(PersistCommissions(PersistUser(
                      s4, user, u), commissions, c), profiles, p), teams, t)
    /\ isLoading' = FALSE
    /\ lastOp' = Op("mount", "", "", "", "", NoEntry)
    /\ UNCHANGED <<currentView, reviewFile, reviewData, listVars, reviewVars,
                   uploadVars, counters>>

\* A page load: every component state is back to its initial value; the
\* store is what the page left behind.
PageLoad(store, name) ==
    /\ user' = Null /\ profiles' = <<>> /\ teams' = <<>> /\ commissions' = <<>>
    /\ currentView' = "dashboard" /\ isLoading' = TRUE
    /\ reviewFile' = Null /\ reviewData' = Null
    /\ localStorage' = store
    /\ ResetList /\ ResetReview /\ ResetUpload
    /\ lastOp' = Op(name, "", "", "", "", NoEntry)
    /\ UNCHANGED counters

\* The user reloads the page in the browser.
Reload == ~isLoading /\ PageLoad(localStorage, "reload")

handleLogout ==
    /\ ~isLoading /\ user # Null
    /\ ~isAddModalOpen /\ modalConfig = Null
    /\ PageLoad(removeItem(localStorage, "app_user"), "logout")

Views == {"dashboard", "commissions", "upload", "settings", "admin"}

\* Layout's nav items: onNavigate = setCurrentView.  The component that was
\* shown is unmounted and its state is lost.
Navigate(view) ==
    /\ ~isLoading /\ user # Null
    /\ ~isAddModalOpen /\ modalConfig = Null
    /\ view # currentView
    /\ view = "admin" => user.role = "admin"
    /\ currentView' = view
    /\ ResetList /\ ResetReview /\ ResetUpload
    /\ lastOp' = Op("navigate", "", "", view, "", NoEntry)
    /\ UNCHANGED <<user, profiles, teams, commissions, isLoading, reviewFile,
                   reviewData, localStorage, counters>>

AdminPanelShownAnyRole == ~isLoading /\ user # Null /\ currentView = "admin"

\* Line 395: currentView === 'admin' && user.role === UserRole.ADMIN
AdminPanelShown ==
    ~isLoading /\ user # Null /\ currentView = "admin" /\ user.role = "admin"

handleImpersonate(targetProfile, confirmed) ==
    /\ AdminPanelShown /\ ~isAddModalOpen
    /\ IF confirmed
       THEN /\ user' = targetProfile
            /\ currentView' = "dashboard"
            /\ localStorage' = PersistUser(localStorage, user, targetProfile)
            /\ ResetList
       ELSE UNCHANGED <<user, currentView, localStorage, listVars>>
    /\ lastOp' = Op("impersonate", targetProfile.id, "", "",
                    IF confirmed THEN "ok" ELSE "cancel", NoEntry)
    /\ UNCHANGED <<profiles, teams, commissions, isLoading, reviewFile, reviewData,
                   reviewVars, uploadVars, counters>>

\* Lines 263-270, with the persistence effects of the render that follows.
\* When the administrator gave their own profile another role the panel is
\* no longer rendered, and the state of its list is lost.
handleUpdateProfile(updatedProfile) ==
    LET u == IF user.id = updatedProfile.id THEN updatedProfile ELSE user
        ps == [i \in 1..Len(profiles) |->
                  IF profiles[i].id = updatedProfile.id THEN updatedProfile ELSE profiles[i]]
    IN  /\ profiles' = ps
        /\ user' = u
        /\ localStorage' = PersistProfiles(PersistUser(localStorage, user, u), profiles, ps)
        /\ IF u.role = "admin" THEN UNCHANGED listVars ELSE ResetList
        /\ UNCHANGED <<teams, commissions, currentView, isLoading, reviewFile, reviewData,
                       reviewVars, uploadVars, counters>>

\* AdminPanel, lines 68-73: the role select of a row of the users table.
handleRoleChange(userId, newRole) ==
    /\ AdminPanelShown /\ ~isAddModalOpen
    /\ \E i \in 1..Len(profiles) :
           /\ profiles[i].id = userId /\ profiles[i].role # newRole
           /\ \A j \in 1..(i - 1) : profiles[j].id # userId
           /\ handleUpdateProfile([profiles[i] EXCEPT !.role = newRole])
    /\ lastOp' = Op("roleChange", userId, "role", newRole, "", NoEntry)

\* AdminPanel, lines 75-80: the team select; the empty option is no team.
handleTeamChange(userId, teamId) ==
    /\ AdminPanelShown /\ ~isAddModalOpen
    /\ \E i \in 1..Len(profiles) :
           /\ profiles[i].id = userId /\ OrStr(profiles[i].team_id, "") # teamId
           /\ \A j \in 1..(i - 1) : profiles[j].id # userId
           /\ handleUpdateProfile([profiles[i] EXCEPT !.team_id = OrStr(teamId, Undefined)])
    /\ lastOp' = Op("teamChange", userId, "team_id", teamId, "", NoEntry)

(***************************************************************************)
(* App: derived data and the CRUD handlers handed to CommissionList.        *)
(***************************************************************************)
myCommissions == SelectSeq(commissions, LAMBDA c : c.user_id = user.id)

teamCommissionsWithSelf ==
    IF user.role # "manager" \/ Falsy(user.team_id) THEN <<>>
    ELSE LET teamMemberIds ==
                 {p.id : p \in {q \in Range(profiles) : q.team_id = user.team_id}}
         IN  SelectSeq(commissions, LAMBDA c : c.user_id \in teamMemberIds)

\* Lines 296-301
teamCommissions ==
    IF user.role # "manager" \/ Falsy(user.team_id) THEN <<>>
    ELSE LET teamMemberIds ==
                 {p.id : p \in {q \in Range(profiles) :
                                   q.team_id = user.team_id /\ q.id # user.id}}
         IN  SelectSeq(commissions, LAMBDA c : c.user_id \in teamMemberIds)

\* netTotal * (rate / 100), exact on whole hundreds
Percent(netTotal, rate) == (netTotal * rate) \div 100

\* handleUpdateCommission, lines 239-246: the entry with its totals recomputed
RecalculatedStale(updatedEntry) == updatedEntry

Recalculated(updatedEntry) ==
    LET netTotal == updatedEntry.amount_before_vat - updatedEntry.cost_before_vat
        netToPay == Percent(netTotal, updatedEntry.commission_rate)
    IN  [updatedEntry EXCEPT !.net_total = netTotal, !.net_to_pay = netToPay]

handleUpdateCommissionEveryRow(updatedEntry) ==
    LET entry == Recalculated(updatedEntry)
    IN  setCommissions(MapSeq(commissions, LAMBDA c : entry))

\* Lines 237-252
handleUpdateCommission(updatedEntry) ==
    LET entry == Recalculated(updatedEntry)
    IN  setCommissions(MapSeq(commissions, LAMBDA c : IF c.id = entry.id THEN entry ELSE c))

handleDeleteCommission(id) ==
    setCommissions(SelectSeq(commissions, LAMBDA c : c.id # id))

handleAddCommission(entry) == setCommissions(<<entry>> \o commissions)

handleSaveCommission(entry) == setCommissions(<<entry>> \o commissions)

randomUUID == "uuid-" \o ToString(uuidCounter + 1)

(***************************************************************************)
(* CommissionList: the props of the instance shown, and its handlers.       *)
(***************************************************************************)
\* <CommissionList> is rendered by App for 'commissions' and by AdminPanel.
ListShown ==
    /\ ~isLoading /\ user # Null
    /\ currentView = "commissions" \/ (currentView = "admin" /\ user.role = "admin")

allowUserFilter == currentView = "admin"

readOnly == FALSE

entries == IF currentView = "admin" THEN commissions ELSE myCommissions

teamEntries == IF currentView = "admin" THEN <<>> ELSE teamCommissions

isViewNeverReadOnly == FALSE

isViewReadOnly == readOnly \/ (user.role = "manager" /\ viewMode = "team")

activeEntries ==
    IF user.role = "manager" /\ viewMode = "team" THEN teamEntries ELSE entries

\* The rows rendered: the ids a row handler can be called with.
ActiveIds == IF ListShown THEN {e.id : e \in Range(activeEntries)} ELSE {}

Find(s, id) == s[CHOOSE i \in 1..Len(s) : s[i].id = id /\ \A j \in 1..(i - 1) : s[j].id # id]

StatusFields == {"commission_status", "client_paid_date", "company_paid_date"}

NumberFields == {"amount_before_vat", "cost_before_vat", "commission_rate", "tax"}

validateFieldNever(field, value) == TRUE

validateField(field, value) ==
    IF field = "amount_before_vat" /\ Number(value) < 0 THEN FALSE
    ELSE IF field = "cost_before_vat" /\ Number(value) < 0 THEN FALSE
    ELSE IF field = "commission_rate" /\ (Number(value) < 0 \/ Number(value) > 100) THEN FALSE
    ELSE IF field = "invoice_number" /\ (value = "" \/ trim(value) = "") THEN FALSE
    ELSE TRUE

\* The columns with a sortable header (lines 434-446), and those of them
\* that hold numbers.
SortKeys ==
    {"invoice_month", "invoice_number", "customer", "project", "amount_before_vat",
     "cost_before_vat", "commission_rate", "net_total", "net_to_pay",
     "client_paid_date", "receipt_number", "commission_status", "company_paid_date"}

NumberKeys == NumberFields \cup {"net_total", "net_to_pay"}

\* aValue === undefined || aValue === null.  Only the optional keys of an
\* entry are ever undefined, and none is ever null.
IsNullish(key, value) == key \in OptionalKeys /\ value = Undefined

\* aValue < bValue
Less(key, aValue, bValue) ==
    IF key \in NumberKeys THEN aValue < bValue ELSE StrLess(aValue, bValue)

CompareDirectionFirst(a, b, config) ==
    LET aValue == a[config.key]
        bValue == b[config.key]
        comparison == IF IsNullish(config.key, aValue) THEN 1
                      ELSE IF IsNullish(config.key, bValue) THEN -1
                      ELSE IF Less(config.key, aValue, bValue) THEN -1 ELSE 1
    IN  IF aValue = bValue THEN 0
        ELSE IF config.direction = "asc" THEN comparison ELSE 0 - comparison

\* Lines 85-97: the comparator handed to Array.prototype.sort
Compare(a, b, config) ==
    LET aValue == a[config.key]
        bValue == b[config.key]
        comparison == IF Less(config.key, aValue, bValue) THEN -1 ELSE 1
    IN  IF aValue = bValue THEN 0
        ELSE IF IsNullish(config.key, aValue) THEN 1
        ELSE IF IsNullish(config.key, bValue) THEN -1
        ELSE IF config.direction = "asc" THEN comparison ELSE 0 - comparison

\* Array.prototype.sort: stable; x goes before the first element it is
\* less than.
InsertSorted(sorted, x, config) ==
    LET later == {i \in 1..Len(sorted) : Compare(x, sorted[i], config) < 0}
        at == IF later = {} THEN Len(sorted) + 1
              ELSE CHOOSE i \in later : \A j \in later : i <= j
    IN  SubSeq(sorted, 1, at - 1) \o <<x>> \o SubSeq(sorted, at, Len(sorted))

RECURSIVE ArraySort(_, _)
ArraySort(s, config) ==
    IF Len(s) = 0 THEN <<>>
    ELSE InsertSorted(ArraySort(SubSeq(s, 1, Len(s) - 1), config), s[Len(s)], config)

\* String.prototype.includes and startsWith
includes(s, sub) ==
    \E i \in 0..(Len(s) - Len(sub)) : SubSeq(s, i + 1, i + Len(sub)) = sub

startsWithAnything(s, prefix) == TRUE

startsWith(s, prefix) == Len(prefix) <= Len(s) /\ SubSeq(s, 1, Len(prefix)) = prefix

\* Lines 63-71: the entry matches the search box.
MatchesSearch(e, lower) ==
    \/ includes(toLowerCase(e.customer), lower)
    \/ includes(toLowerCase(e.invoice_number), lower)
    \/ e.receipt_number # Undefined /\ includes(toLowerCase(e.receipt_number), lower)
    \/ includes(toLowerCase(e.project), lower)

\* Lines 60-83: the four filters, each one skipped while it is not set.
Filtered(s) ==
    LET searched == IF searchTerm # ""
                    THEN SelectSeq(s, LAMBDA e : MatchesSearch(e, toLowerCase(searchTerm)))
                    ELSE s
        byStatus == IF statusFilter # "all"
                    THEN SelectSeq(searched, LAMBDA e : e.commission_status = statusFilter)
                    ELSE searched
        byMonth == IF monthFilter # ""
                   THEN SelectSeq(byStatus, LAMBDA e : startsWith(e.invoice_month, monthFilter))
                   ELSE byStatus
    IN  IF allowUserFilter /\ userFilter # "all"
        THEN SelectSeq(byMonth, LAMBDA e : e.user_id = userFilter)
        ELSE byMonth

\* Lines 58-102
filteredEntries ==
    LET result == Filtered(activeEntries)
    IN  IF sortConfig # Null THEN ArraySort(result, sortConfig) ELSE result

\* Lines 236-238.  new Date(d) reads YYYY-MM-DD as midnight UTC; the texts
\* are those of a browser whose time zone is UTC or east of it.
MonthShort(mm) ==
    CASE mm = "01" -> "Jan" [] mm = "02" -> "Feb" [] mm = "03" -> "Mar"
      [] mm = "04" -> "Apr" [] mm = "05" -> "May" [] mm = "06" -> "Jun"
      [] mm = "07" -> "Jul" [] mm = "08" -> "Aug" [] mm = "09" -> "Sep"
      [] mm = "10" -> "Oct" [] mm = "11" -> "Nov" [] mm = "12" -> "Dec"

fmtDate(d) ==
    IF Falsy(d) THEN ""
    ELSE SubSeq(d, 9, 10) \o "/" \o SubSeq(d, 6, 7) \o "/" \o SubSeq(d, 1, 4)

fmtMonth(d) ==
    IF Falsy(d) THEN "" ELSE MonthShort(SubSeq(d, 6, 7)) \o " " \o SubSeq(d, 1, 4)

getUserName(id) ==
    IF \E p \in Range(profiles) : p.id = id
    THEN OrStr(Find(profiles, id).full_name, id)
    ELSE id

\* The columns of the sheet.  Freelancer is there in the admin panel and in
\* the team view.
ExportLimit == 5000

SummedColumns ==
    {"Amount Before VAT", "Cost Before VAT", "Net Total", "Net to Pay", "Tax"}

ExportColumns ==
    (IF allowUserFilter \/ viewMode = "team" THEN {"Freelancer"} ELSE {})
        \cup {"Invoice Number", "Receipt Number", "Customer", "Project",
               "Commission Rate (%)", "Invoice Month", "Client Paid Date", "Status",
               "Company Paid Date", "Note"}
        \cup SummedColumns

\* The key of an entry that a summed column holds.
ColumnKey(col) ==
    CASE col = "Amount Before VAT" -> "amount_before_vat"
      [] col = "Cost Before VAT" -> "cost_before_vat"
      [] col = "Net Total" -> "net_total"
      [] col = "Net to Pay" -> "net_to_pay"
      [] col = "Tax" -> "tax"

\* Lines 240-257
ExportCell(e, col) ==
    CASE col = "Freelancer" -> getUserName(e.user_id)
      [] col = "Invoice Number" -> e.invoice_number
      [] col = "Receipt Number" -> OrStr(e.receipt_number, "")
      [] col = "Customer" -> e.customer
      [] col = "Project" -> e.project
      [] col = "Commission Rate (%)" -> e.commission_rate
      [] col = "Invoice Month" -> fmtMonth(e.invoice_month)
      [] col = "Client Paid Date" -> fmtDate(e.client_paid_date)
      [] col = "Status" -> e.commission_status
      [] col = "Company Paid Date" -> fmtDate(e.company_paid_date)
      [] col = "Note" -> OrStr(e.note, "")
      [] OTHER -> e[ColumnKey(col)]

\* filteredEntries.reduce((sum, e) => sum + e[key], 0), over s[lo..hi]
RECURSIVE SumOf(_, _, _, _)
SumOf(s, key, lo, hi) ==
    IF lo > hi THEN 0
    ELSE IF lo = hi THEN s[lo][key]
    ELSE LET mid == (lo + hi) \div 2
         IN  SumOf(s, key, lo, mid) + SumOf(s, key, mid + 1, hi)

TotalsCellFirstRow(view, col) ==
    IF col = "Invoice Number" THEN "TOTALS"
    ELSE IF col = "Net to Pay" THEN view[1].net_to_pay
    ELSE IF col \in SummedColumns THEN SumOf(view, ColumnKey(col), 1, Len(view))
    ELSE ""

\* Lines 260-277
TotalsCell(view, col) ==
    IF col = "Invoice Number" THEN "TOTALS"
    ELSE IF col \in SummedColumns THEN SumOf(view, ColumnKey(col), 1, Len(view))
    ELSE ""

\* Lines 240-292: the rows handed to XLSX, and the name of the file.
ExportFile(view) ==
    [filename |-> IF monthFilter # "" THEN "Commissions_" \o monthFilter \o ".xlsx"
                  ELSE "Commissions_Export.xlsx",
     data |-> [i \in 1..(Len(view) + 1) |->
                  IF i <= Len(view)
                  THEN [col \in ExportColumns |-> ExportCell(view[i], col)]
                  ELSE [col \in ExportColumns |-> TotalsCell(view, col)]]]

ExportRefusedNever(n) == FALSE

\* Lines 229-233
ExportRefused(n) == n = 0 \/ n > ExportLimit

\* The Export button is disabled while the view is empty; the handler has
\* its own test as well.
handleExport ==
    /\ ListShown /\ ~isAddModalOpen
    /\ Len(downloads) < MaxExports
    /\ LET view == filteredEntries
       IN  IF ExportRefused(Len(view))
           THEN /\ UNCHANGED downloads
                /\ lastOp' = Op("export", "", "", "",
                                IF Len(view) = 0 THEN "empty" ELSE "limit", NoEntry)
           ELSE /\ downloads' = Append(downloads, ExportFile(view))
                /\ lastOp' = Op("export", "", "", "", "file", NoEntry)
    /\ UNCHANGED <<appVars, listVars, reviewVars, uploadVars, uuidCounter, created, saves,
                   queueOps, editCount, statusEdits, textEdits, deleted>>

\* The filter controls, lines 346-392.
setSearchTerm(value) ==
    /\ ListShown /\ ~isAddModalOpen
    /\ value # searchTerm
    /\ searchTerm' = value
    /\ lastOp' = Op("search", "", "", value, "", NoEntry)
    /\ UNCHANGED <<appVars, viewMode, invalidFields, sortConfig, statusFilter, monthFilter,
                   userFilter, isAddModalOpen, reviewVars, uploadVars, counters>>

setStatusFilter(value) ==
    /\ ListShown /\ ~isAddModalOpen
    /\ value # statusFilter
    /\ statusFilter' = value
    /\ lastOp' = Op("statusFilter", "", "", value, "", NoEntry)
    /\ UNCHANGED <<appVars, viewMode, invalidFields, sortConfig, searchTerm, monthFilter,
                   userFilter, isAddModalOpen, reviewVars, uploadVars, counters>>

setMonthFilter(value) ==
    /\ ListShown /\ ~isAddModalOpen
    /\ value # monthFilter
    /\ monthFilter' = value
    /\ lastOp' = Op("monthFilter", "", "", value, "", NoEntry)
    /\ UNCHANGED <<appVars, viewMode, invalidFields, sortConfig, searchTerm, statusFilter,
                   userFilter, isAddModalOpen, reviewVars, uploadVars, counters>>

setUserFilter(value) ==
    /\ ListShown /\ ~isAddModalOpen /\ allowUserFilter
    /\ value # userFilter
    /\ userFilter' = value
    /\ lastOp' = Op("userFilter", "", "", value, "", NoEntry)
    /\ UNCHANGED <<appVars, viewMode, invalidFields, sortConfig, searchTerm, statusFilter,
                   monthFilter, isAddModalOpen, reviewVars, uploadVars, counters>>

\* Lines 116-121
NextDirectionAlwaysAsc(current, key) == "asc"

NextDirection(current, key) ==
    IF current # Null /\ current.key = key /\ current.direction = "asc"
    THEN "desc" ELSE "asc"

handleSort(key) ==
    /\ ListShown /\ ~isAddModalOpen
    /\ sortConfig' = [key |-> key, direction |-> NextDirection(sortConfig, key)]
    /\ lastOp' = Op("sort", "", key, "", "", NoEntry)
    /\ UNCHANGED <<appVars, viewMode, invalidFields, filterVars, isAddModalOpen, reviewVars,
                   uploadVars, counters>>

setViewMode(mode) ==
    /\ ListShown /\ ~isAddModalOpen
    /\ user.role = "manager" /\ ~allowUserFilter
    /\ mode # viewMode
    /\ viewMode' = mode
    /\ lastOp' = Op("viewMode", "", "", mode, "", NoEntry)
    /\ UNCHANGED <<appVars, invalidFields, sortConfig, filterVars, isAddModalOpen, reviewVars,
                   uploadVars,
                   counters>>

\* Lines 152-166: the entry handed to onUpdate.  `date` is the answer of
\* window.prompt (Undefined when the prompt is cancelled).
AsksCompanyPaidDate(entry, field, updatedValue) ==
    field = "commission_status" /\ updatedValue = "paid" /\ Falsy(entry.company_paid_date)

InlineResultAlwaysEligible(entry, field, updatedValue, date) ==
    LET updatedEntry == [entry EXCEPT ![field] = updatedValue]
    IN  IF AsksCompanyPaidDate(entry, field, updatedValue) /\ ~Falsy(date)
        THEN [updatedEntry EXCEPT !.company_paid_date = date]
        ELSE IF field = "client_paid_date" /\ ~Falsy(updatedValue)
             THEN [updatedEntry EXCEPT !.commission_status = "eligible"]
             ELSE updatedEntry

InlineResultClearsDates(entry, field, updatedValue, date) ==
    LET updatedEntry == [entry EXCEPT ![field] = updatedValue]
    IN  IF AsksCompanyPaidDate(entry, field, updatedValue) /\ ~Falsy(date)
        THEN [updatedEntry EXCEPT !.company_paid_date = date]
        ELSE IF field = "client_paid_date" /\ ~Falsy(updatedValue)
                  /\ entry.commission_status = "unpaid"
             THEN [updatedEntry EXCEPT !.commission_status = "eligible"]
             ELSE IF field = "commission_status" /\ updatedValue = "unpaid"
                  THEN [updatedEntry EXCEPT !.client_paid_date = Undefined,
                                            !.company_paid_date = Undefined]
                  ELSE updatedEntry

InlineResult(entry, field, updatedValue, date) ==
    LET updatedEntry == [entry EXCEPT ![field] = updatedValue]
    IN  IF AsksCompanyPaidDate(entry, field, updatedValue) /\ ~Falsy(date)
        THEN [updatedEntry EXCEPT !.company_paid_date = date]
        ELSE IF field = "client_paid_date" /\ ~Falsy(updatedValue)
                  /\ entry.commission_status = "unpaid"
             THEN [updatedEntry EXCEPT !.commission_status = "eligible"]
             ELSE updatedEntry

handleInlineUpdate(id, field, value, date) ==
    /\ ListShown /\ ~isAddModalOpen
    /\ IF field \in StatusFields
       THEN /\ statusEdits < MaxStatusEdits
            /\ statusEdits' = statusEdits + 1
            /\ UNCHANGED <<editCount, textEdits>>
       ELSE IF field \in NumberFields
       THEN /\ editCount < MaxEdits
            /\ editCount' = editCount + 1
            /\ UNCHANGED <<statusEdits, textEdits>>
       ELSE /\ textEdits < MaxTextEdits
            /\ textEdits' = textEdits + 1
            /\ UNCHANGED <<statusEdits, editCount>>
    /\ IF isViewReadOnly
       THEN /\ UNCHANGED <<appVars, listVars>>
            /\ lastOp' = Op("inline", id, field, value, "readonly", NoEntry)
       ELSE LET isValid == validateField(field, value)
                key == id \o "-" \o field
                found == \E e \in Range(activeEntries) : e.id = id
                entry == Find(activeEntries, id)
                updatedValue == IF field \in NumberFields THEN Number(value) ELSE value
                asked == AsksCompanyPaidDate(entry, field, updatedValue)
            IN  /\ invalidFields' = setItem(invalidFields, key, ~isValid)
                /\ IF ~found
                   THEN /\ UNCHANGED <<commissions, localStorage>>
                        /\ lastOp' = Op("inline", id, field, value, "missing", NoEntry)
                   ELSE /\ handleUpdateCommission(InlineResult(entry, field, updatedValue, date))
                        /\ lastOp' = Op("inline", id, field, value,
                                        IF asked THEN date ELSE "unasked",
                                        entry.commission_status)
                /\ UNCHANGED <<user, profiles, teams, currentView, isLoading, reviewFile,
                               reviewData, viewMode, sortConfig, filterVars,
                               isAddModalOpen>>
    /\ UNCHANGED <<reviewVars, uploadVars, uuidCounter, created, saves, queueOps, deleted,
                   downloads>>

handleDeleteClick(id, confirmed) ==
    /\ ListShown /\ ~isAddModalOpen
    /\ IF isViewReadOnly
       THEN /\ UNCHANGED <<commissions, localStorage, deleted>>
            /\ lastOp' = Op("delete", id, "", "", "readonly", NoEntry)
       ELSE IF confirmed
       THEN /\ handleDeleteCommission(id)
            /\ deleted' = deleted \cup {id}
            /\ lastOp' = Op("delete", id, "", "", "ok", NoEntry)
       ELSE /\ UNCHANGED <<commissions, localStorage, deleted>>
            /\ lastOp' = Op("delete", id, "", "", "cancel", NoEntry)
    /\ UNCHANGED <<user, profiles, teams, currentView, isLoading, reviewFile, reviewData,
                   listVars, reviewVars, uploadVars, uuidCounter, created, saves,
                   queueOps, editCount, statusEdits, textEdits, downloads>>

\* The 'Add Commission' button and the modal's Cancel / X buttons.
openAddModal ==
    /\ ListShown /\ ~isViewReadOnly /\ ~isAddModalOpen
    /\ isAddModalOpen' = TRUE
    /\ lastOp' = Op("openAdd", "", "", "", "", NoEntry)
    /\ UNCHANGED <<appVars, viewMode, invalidFields, sortConfig, filterVars, reviewVars,
                   uploadVars,
                   counters>>

closeAddModal ==
    /\ ListShown /\ isAddModalOpen
    /\ isAddModalOpen' = FALSE
    /\ lastOp' = Op("closeAdd", "", "", "", "", NoEntry)
    /\ UNCHANGED <<appVars, viewMode, invalidFields, sortConfig, filterVars, reviewVars,
                   uploadVars,
                   counters>>

\* The contents of the manual-add form when it is submitted.  An unset
\* required text is '', an unset number is 0 (both falsy, as undefined is).
NewEntryForms ==
    [invoice_number : {"", "inv-2023-005", "INV-2023-999"},
     invoice_month : {"2024-01-01"},
     amount_before_vat : {0, 1000},
     cost_before_vat : {0, 200},
     commission_rate : {0, 10},
     tax : {0},
     receipt_number : {Undefined},
     customer : {Undefined},
     project : {Undefined},
     note : {Undefined},
     file_name : {Undefined}]

\* Lines 197-221: the entry built from the form.
NewEntryFrom(newEntry) ==
    LET amount == newEntry.amount_before_vat
        cost == OrNum(newEntry.cost_before_vat, 0)
        rate == OrNum(newEntry.commission_rate, user.default_commission_rate)
        netTotal == amount - cost
        netToPay == Percent(netTotal, rate)
    IN  [id |-> randomUUID,
         user_id |-> user.id,
         invoice_number |-> newEntry.invoice_number,
         receipt_number |-> newEntry.receipt_number,
         customer |-> OrStr(newEntry.customer, "Unknown"),
         project |-> OrStr(newEntry.project, ""),
         amount_before_vat |-> amount,
         cost_before_vat |-> cost,
         commission_rate |-> rate,
         tax |-> OrNum(newEntry.tax, 0),
         net_total |-> netTotal,
         net_to_pay |-> netToPay,
         invoice_month |-> newEntry.invoice_month,
         client_paid_date |-> Undefined,
         commission_status |-> "unpaid",
         company_paid_date |-> Undefined,
         note |-> newEntry.note,
         file_name |-> newEntry.file_name]

\* Line 191: an active entry with the same invoice number, ignoring case.
IsDuplicateInList(invoiceNumber) ==
    Some(activeEntries,
         LAMBDA e : toLowerCase(e.invoice_number) = toLowerCase(invoiceNumber))

\* onAdd: App passes handleAddCommission, AdminPanel passes () => {}.
onAdd(entry) ==
    IF currentView = "admin" THEN UNCHANGED <<commissions, localStorage>>
    ELSE handleAddCommission(entry)

handleAddSubmit(newEntry, confirmed) ==
    /\ ListShown /\ isAddModalOpen
    /\ created < MaxNewEntries
    /\ IF Falsy(newEntry.invoice_number) \/ newEntry.amount_before_vat = 0
          \/ Falsy(newEntry.invoice_month)
       THEN /\ UNCHANGED <<commissions, localStorage, isAddModalOpen, uuidCounter, created>>
            /\ lastOp' = Op("add", "", "", newEntry.invoice_number, "required", NoEntry)
       ELSE IF IsDuplicateInList(newEntry.invoice_number) /\ ~confirmed
       THEN /\ UNCHANGED <<commissions, localStorage, isAddModalOpen, uuidCounter, created>>
            /\ lastOp' = Op("add", "", "", newEntry.invoice_number, "cancel", NoEntry)
       ELSE /\ onAdd(NewEntryFrom(newEntry))
            /\ uuidCounter' = uuidCounter + 1
            /\ created' = created + 1
            /\ isAddModalOpen' = FALSE
            /\ lastOp' = Op("add", randomUUID, "", newEntry.invoice_number,
                            IF IsDuplicateInList(newEntry.invoice_number)
                            THEN "ok" ELSE "unasked", newEntry)
    /\ UNCHANGED <<user, profiles, teams, currentView, isLoading, reviewFile, reviewData,
                   viewMode, invalidFields, sortConfig, filterVars, reviewVars, uploadVars, saves,
                   queueOps,
                   editCount, statusEdits, textEdits, deleted, downloads>>


(***************************************************************************)
(* InvoiceReview: mapping of the extracted records to drafts, and the save  *)
(* gates.  A draft keeps its number fields as the text of their <input>.    *)
(* Line items are numbered from 1 here (from 0 in the source).              *)
(***************************************************************************)
\* Exchange rates in hundredths (34.5 is 3450).
EXCHANGE_RATES ==
    [USD |-> 3450, EUR |-> 3750, GBP |-> 4380, JPY |-> 23,
     AUD |-> 2250, SGD |-> 2560, CNY |-> 480, THB |-> 100]

UpperChar(c) ==
    CASE c = "a" -> "A" [] c = "b" -> "B" [] c = "c" -> "C" [] c = "d" -> "D"
      [] c = "e" -> "E" [] c = "f" -> "F" [] c = "g" -> "G" [] c = "h" -> "H"
      [] c = "i" -> "I" [] c = "j" -> "J" [] c = "k" -> "K" [] c = "l" -> "L"
      [] c = "m" -> "M" [] c = "n" -> "N" [] c = "o" -> "O" [] c = "p" -> "P"
      [] c = "q" -> "Q" [] c = "r" -> "R" [] c = "s" -> "S" [] c = "t" -> "T"
      [] c = "u" -> "U" [] c = "v" -> "V" [] c = "w" -> "W" [] c = "x" -> "X"
      [] c = "y" -> "Y" [] c = "z" -> "Z" [] OTHER -> c

RECURSIVE toUpperCase(_)
toUpperCase(s) ==
    IF Len(s) = 0 THEN ""
    ELSE UpperChar(Char(s, 1)) \o toUpperCase(SubSeq(s, 2, Len(s)))

\* new Date().toISOString().slice(0, 10)
Today == "2026-11-04"

\* !isNaN(new Date(s).getTime()), for the YYYY-MM-DD strings of the model
IsValidDate(s) == Len(s) = 10 /\ Char(s, 5) = "-" /\ Char(s, 8) = "-"

\* Number.prototype.toFixed(2) of a product of two numbers held in
\* hundredths (x is in ten-thousandths), read back by Number(): the nearest
\* hundredth.  At an exact tie the code's double lies on either side; the
\* model takes the upper one, and RawAmounts holds no amount that makes a tie.
toFixed2(x) == (x + 50) \div 100

\* The text of a number held in hundredths: 345000 is 3450, 23 is 0.23.
Decimal(h) ==
    LET sign == IF h < 0 THEN "-" ELSE ""
        a == IF h < 0 THEN 0 - h ELSE h
        whole == ToString(a \div 100)
        f == a % 100
    IN  IF f = 0 THEN sign \o whole
        ELSE IF f % 10 = 0 THEN sign \o whole \o "." \o ToString(f \div 10)
        ELSE sign \o whole \o "." \o (IF f < 10 THEN "0" ELSE "") \o ToString(f)

ConvertsAnyAmount(amount, currencyCode) ==
    currencyCode # "THB" /\ currencyCode \in DOMAIN EXCHANGE_RATES

\* Lines 83-85: currencyCode !== 'THB' && amount > 0, and a rate is listed.
Converts(amount, currencyCode) ==
    /\ currencyCode # "THB" /\ amount > 0
    /\ currencyCode \in DOMAIN EXCHANGE_RATES

\* Lines 64-109.  A key the extraction left out is Undefined (0 for the
\* amount).  The amount of a record and the rates are held in hundredths.
mappedItem(item) ==
    LET rawDate == OrStr(item.invoice_date, Today)
        dateStr == IF ~Falsy(item.invoice_date) /\ IsValidDate(item.invoice_date)
                   THEN SubSeq(item.invoice_date, 1, 8) \o "01"
                   ELSE SubSeq(Today, 1, 8) \o "01"
        amount == item.amount_before_vat
        currencyCode == toUpperCase(OrStr(item.currency_code, "THB"))
        converts == Converts(amount, currencyCode)
        rate == EXCHANGE_RATES[currencyCode]
    IN  [invoice_number |-> OrStr(item.invoice_number, ""),
         receipt_number |-> OrStr(item.receipt_number, Undefined),
         customer |-> OrStr(item.customer, ""),
         amount_before_vat |-> Decimal(IF converts THEN toFixed2(amount * rate) ELSE amount),
         project |-> OrStr(item.project_description, ""),
         invoice_month |-> dateStr,
         client_paid_date |-> IF ~Falsy(item.receipt_number) THEN rawDate ELSE Undefined,
         commission_rate |-> ToString(user.default_commission_rate),
         cost_before_vat |-> "",
         tax |-> "0",
         conversionInfo |-> IF converts
                            THEN [originalCurrency |-> currencyCode,
                                  originalAmount |-> amount, rate |-> rate]
                            ELSE Null]

mappedItems(initialData) == MapSeq(initialData.records, mappedItem)

ReviewShown == ~isLoading /\ user # Null /\ currentView = "review"

\* Lines 114-118.  The inputs of a saved line item are still rendered with
\* their onChange (its card only has pointer-events-none, line 304), so the
\* keyboard reaches them.
handleChange(index, field, value) ==
    /\ ReviewShown /\ modalConfig = Null
    /\ index \in 1..Len(items)
    /\ editCount < MaxEdits
    /\ editCount' = editCount + 1
    /\ items' = [items EXCEPT ![index][field] = value]
    /\ lastOp' = Op("change", ToString(index), field, value, "", NoEntry)
    /\ UNCHANGED <<appVars, listVars, savedIds, modalConfig, uploadVars,
                   uuidCounter, created, saves, queueOps, statusEdits, textEdits, deleted, downloads>>

\* Lines 143-145
isDuplicateAnyUser(item) ==
    Some(commissions,
         LAMBDA c : toLowerCase(c.invoice_number) = toLowerCase(item.invoice_number))

isDuplicate(item) ==
    Some(commissions,
         LAMBDA c : /\ toLowerCase(c.invoice_number) = toLowerCase(item.invoice_number)
                    /\ c.user_id = user.id)

StatusAlwaysUnpaid(item) == "unpaid"

\* Line 188
StatusAtSave(item) == IF ~Falsy(item.client_paid_date) THEN "eligible" ELSE "unpaid"

\* Lines 163-190
EntryFromItem(item) ==
    LET cost == IF item.cost_before_vat = "" THEN 0 ELSE Number(item.cost_before_vat)
        amount == Number(item.amount_before_vat)
        rate == Number(item.commission_rate)
        netTotal == amount - cost
        netToPay == Percent(netTotal, rate)
    IN  [id |-> randomUUID,
         user_id |-> user.id,
         invoice_number |-> item.invoice_number,
         receipt_number |-> OrStr(item.receipt_number, Undefined),
         customer |-> item.customer,
         project |-> item.project,
         amount_before_vat |-> amount,
         cost_before_vat |-> cost,
         commission_rate |-> rate,
         tax |-> OrNum(Number(item.tax), 0),
         net_total |-> netTotal,
         net_to_pay |-> netToPay,
         invoice_month |-> item.invoice_month,
         client_paid_date |-> item.client_paid_date,
         commission_status |-> StatusAtSave(item),
         company_paid_date |-> Undefined,
         note |-> Undefined,
         file_name |-> IF reviewFile = Null THEN Undefined ELSE reviewFile.name]

finalizeSave(index) ==
    LET item == items[index]
    IN  /\ handleSaveCommission(EntryFromItem(item))
        /\ savedIds' = savedIds \cup {index}
        /\ modalConfig' = Null
        /\ items' = IF item.cost_before_vat = ""
                    THEN [items EXCEPT ![index].cost_before_vat = "0"]
                    ELSE items
        /\ uuidCounter' = uuidCounter + 1
        /\ saves' = saves + 1

Gate(type, index) == [isOpen |-> TRUE, type |-> type, index |-> index]

proceedWithDuplicateCheck(index) ==
    IF isDuplicate(items[index])
    THEN /\ modalConfig' = Gate("duplicate", index)
         /\ UNCHANGED <<commissions, localStorage, items, savedIds, uuidCounter, saves>>
    ELSE finalizeSave(index)

\* What proceedWithDuplicateCheck ends in, for the history record.
DuplicateCheckOutcome(index) ==
    IF isDuplicate(items[index]) THEN "duplicate" ELSE "saved"

CostIsNeverEmpty(item) == FALSE

\* Line 124.  A draft's cost is always a text: the mapping sets '' and the
\* <input> hands handleChange its text.
CostIsEmpty(item) == item.cost_before_vat = ""

handleSaveClick(index) ==
    /\ ReviewShown /\ modalConfig = Null
    /\ index \in 1..Len(items) /\ index \notin savedIds
    /\ saves < MaxSaves
    /\ IF CostIsEmpty(items[index])
       THEN /\ modalConfig' = Gate("cost_empty", index)
            /\ lastOp' = Op("saveClick", ToString(index), "", "", "cost_empty", NoEntry)
            /\ UNCHANGED <<commissions, localStorage, items, savedIds, uuidCounter, saves>>
       ELSE /\ proceedWithDuplicateCheck(index)
            /\ lastOp' = Op("saveClick", ToString(index), "", "",
                            DuplicateCheckOutcome(index), NoEntry)
    /\ UNCHANGED <<user, profiles, teams, currentView, isLoading, reviewFile, reviewData,
                   listVars, uploadVars, created, queueOps, editCount, statusEdits,
                   textEdits, deleted, downloads>>

handleModalConfirm ==
    /\ ReviewShown /\ modalConfig # Null
    /\ IF modalConfig.type = "cost_empty"
       THEN /\ proceedWithDuplicateCheck(modalConfig.index)
            /\ lastOp' = Op("confirm", ToString(modalConfig.index), "cost_empty", "",
                            DuplicateCheckOutcome(modalConfig.index), NoEntry)
       ELSE /\ finalizeSave(modalConfig.index)
            /\ lastOp' = Op("confirm", ToString(modalConfig.index), "duplicate", "",
                            "saved", NoEntry)
    /\ UNCHANGED <<user, profiles, teams, currentView, isLoading, reviewFile, reviewData,
                   listVars, uploadVars, created, queueOps, editCount, statusEdits,
                   textEdits, deleted, downloads>>

\* The modal's secondary button: setModalConfig(null)
handleModalCancel ==
    /\ ReviewShown /\ modalConfig # Null
    /\ modalConfig' = Null
    /\ lastOp' = Op("cancelGate", ToString(modalConfig.index), modalConfig.type, "",
                    "cancel", NoEntry)
    /\ UNCHANGED <<appVars, listVars, items, savedIds, uploadVars, counters>>

allSaved == Len(items) > 0 /\ Len(items) = Cardinality(savedIds)

\* 'Go to Commissions': onFinish
handleReviewFinish ==
    /\ ReviewShown /\ modalConfig = Null /\ allSaved
    /\ reviewFile' = Null /\ reviewData' = Null
    /\ currentView' = "commissions"
    /\ ResetReview
    /\ lastOp' = Op("finish", "", "", "", "", NoEntry)
    /\ UNCHANGED <<user, profiles, teams, commissions, isLoading, localStorage,
                   listVars, uploadVars, counters>>

\* The back arrow: onCancel
handleCancelReview ==
    /\ ReviewShown /\ modalConfig = Null
    /\ reviewFile' = Null /\ reviewData' = Null
    /\ currentView' = "upload"
    /\ ResetReview
    /\ lastOp' = Op("cancelReview", "", "", "", "", NoEntry)
    /\ UNCHANGED <<user, profiles, teams, commissions, isLoading, localStorage,
                   listVars, uploadVars, counters>>

UploadShown == ~isLoading /\ user # Null /\ currentView = "upload"

\* The record {} of a manual entry: every key is missing.
EmptyRecord ==
    [invoice_number |-> Undefined, receipt_number |-> Undefined, customer |-> Undefined,
     amount_before_vat |-> 0, currency_code |-> Undefined, invoice_date |-> Undefined,
     project_description |-> Undefined]

\* setReviewData(d); setCurrentView('review'), and InvoiceReview's mount effect
StartReview(file, data) ==
    /\ reviewFile' = file
    /\ reviewData' = data
    /\ currentView' = "review"
    /\ items' = mappedItems(data)
    /\ savedIds' = {} /\ modalConfig' = Null
    /\ ResetUpload
    /\ UNCHANGED <<user, profiles, teams, commissions, isLoading, localStorage,
                   listVars, counters>>

handleManualEntry ==
    /\ UploadShown
    /\ StartReview(Null, [records |-> <<EmptyRecord>>])
    /\ lastOp' = Op("manualEntry", "", "", "", "", NoEntry)

handleStartReview(i) ==
    /\ UploadShown
    /\ i \in 1..Len(queue) /\ queue[i].status = "ready"
    /\ StartReview(queue[i].file, queue[i].extractedData)
    /\ lastOp' = Op("startReview", queue[i].id, "", "", "", NoEntry)

(***************************************************************************)
(* InvoiceUpload: the queue and the startUploadAndParse pipelines.  A       *)
(* pipeline is [id, pc, i]: in its progress loop about to set progress i    *)
(* ("upload"), or waiting for extractInvoiceData ("extract").               *)
(***************************************************************************)
QueueLimit   == 5
ProgressStep == 10
ProgressFull == 100

\* q => q.id === id ? change(q) : q
IsAnyItem(q, id) == TRUE

IsItem(q, id) == q.id = id

MapItem(q, id, Change(_)) == MapSeq(q, LAMBDA x : IF IsItem(x, id) THEN Change(x) ELSE x)

\* Array.prototype.slice(0, n)
Slice(s, n) ==
    SubSeq(s, 1, IF n < 0 THEN (IF Len(s) + n > 0 THEN Len(s) + n ELSE 0)
                 ELSE IF n < Len(s) THEN n ELSE Len(s))

NewItemsNoLimit(files) ==
    LET pdfs == SelectSeq(files, LAMBDA f : f.type = "application/pdf")
    IN  [k \in 1..Len(pdfs) |->
            [id |-> "uuid-" \o ToString(uuidCounter + k), file |-> pdfs[k],
             status |-> "uploading", progress |-> 0,
             extractedData |-> Null, errorMessage |-> Undefined]]

\* Lines 27-35, and the first pass of each item's progress loop (line 53),
\* which runs before startUploadAndParse first awaits.
NewItems(files) ==
    LET pdfs == SelectSeq(Slice(files, QueueLimit - Len(queue)),
                          LAMBDA f : f.type = "application/pdf")
    IN  [k \in 1..Len(pdfs) |->
            [id |-> "uuid-" \o ToString(uuidCounter + k), file |-> pdfs[k],
             status |-> "uploading", progress |-> 0,
             extractedData |-> Null, errorMessage |-> Undefined]]

FirstPass(item) == [item EXCEPT !.progress = ProgressStep]

Started(id) == [id |-> id, pc |-> "upload", i |-> 2 * ProgressStep]

processFiles(files) ==
    /\ UploadShown
    /\ queueOps < MaxQueueOps
    /\ queueOps' = queueOps + 1
    /\ LET newItems == NewItems(files)
       IN  IF Len(newItems) = 0
           THEN /\ UNCHANGED <<queue, pipelines, uuidCounter>>
                /\ lastOp' = Op("processFiles", "", "", "", "none", NoEntry)
           ELSE /\ queue' = queue \o MapSeq(newItems, FirstPass)
                /\ pipelines' = pipelines \cup {Started(x.id) : x \in Range(newItems)}
                /\ uuidCounter' = uuidCounter + Len(newItems)
                /\ lastOp' = Op("processFiles", "", "", "", "queued", NoEntry)
    /\ UNCHANGED <<appVars, listVars, reviewVars, created, saves, editCount, statusEdits,
                   textEdits, deleted, downloads>>

TickRestores(p) ==
    /\ p \in pipelines /\ p.pc = "upload" /\ p.i <= ProgressFull
    /\ queue' = IF \E x \in Range(queue) : x.id = p.id
                THEN MapItem(queue, p.id, LAMBDA q : [q EXCEPT !.progress = p.i])
                ELSE Append(queue, [id |-> p.id, file |-> Null, status |-> "uploading",
                                    progress |-> p.i, extractedData |-> Null,
                                    errorMessage |-> Undefined])
    /\ pipelines' = (pipelines \ {p}) \cup {[p EXCEPT !.i = p.i + ProgressStep]}
    /\ lastOp' = Op("tick", p.id, "", "", "", NoEntry)
    /\ UNCHANGED <<appVars, listVars, reviewVars, counters>>

\* Line 53, after an await: the next pass of the progress loop.
Tick(p) ==
    /\ p \in pipelines /\ p.pc = "upload" /\ p.i <= ProgressFull
    /\ queue' = MapItem(queue, p.id, LAMBDA q : [q EXCEPT !.progress = p.i])
    /\ pipelines' = (pipelines \ {p}) \cup {[p EXCEPT !.i = p.i + ProgressStep]}
    /\ lastOp' = Op("tick", p.id, "", "", "", NoEntry)
    /\ UNCHANGED <<appVars, listVars, reviewVars, counters>>

\* Line 57: the loop is over.
Parsing(q) == [q EXCEPT !.status = "parsing", !.progress = ProgressFull]

BeginParse(p) ==
    /\ p \in pipelines /\ p.pc = "upload" /\ p.i > ProgressFull
    /\ queue' = MapItem(queue, p.id, Parsing)
    /\ pipelines' = (pipelines \ {p}) \cup {[p EXCEPT !.pc = "extract"]}
    /\ lastOp' = Op("parsing", p.id, "", "", "", NoEntry)
    /\ UNCHANGED <<appVars, listVars, reviewVars, counters>>

\* Lines 68-87: what extractInvoiceData ended in.  outcome.kind is "data"
\* (a record), "null" (no or unparsable text), "timeout" or "failure".
ExtractedKeepsParsing(q, outcome) ==
    IF outcome.kind = "data"
    THEN [q EXCEPT !.extractedData = outcome.data]
    ELSE [q EXCEPT !.status = "error",
                   !.errorMessage = IF outcome.kind \in {"null", "timeout"}
                                    THEN "Could not read this PDF"
                                    ELSE "Extraction failed"]

Extracted(q, outcome) ==
    IF outcome.kind = "data"
    THEN [q EXCEPT !.status = "ready", !.extractedData = outcome.data]
    ELSE [q EXCEPT !.status = "error",
                   !.errorMessage = IF outcome.kind \in {"null", "timeout"}
                                    THEN "Could not read this PDF"
                                    ELSE "Extraction failed"]

ExtractDone(p, outcome) ==
    /\ p \in pipelines /\ p.pc = "extract"
    /\ queue' = MapItem(queue, p.id, LAMBDA q : Extracted(q, outcome))
    /\ pipelines' = pipelines \ {p}
    /\ lastOp' = Op("extracted", p.id, "", "", outcome.kind, NoEntry)
    /\ UNCHANGED <<appVars, listVars, reviewVars, counters>>

\* Lines 61-62 and 89: reader.onload is the only handler of the FileReader.
\* When the file cannot be read (it was moved or deleted since it was
\* chosen) the reader fires 'error', no handler runs and the call is over.
ReadFailed(p) ==
    /\ p \in pipelines /\ p.pc = "extract"
    /\ pipelines' = pipelines \ {p}
    /\ lastOp' = Op("readFailed", p.id, "", "", "", NoEntry)
    /\ UNCHANGED <<appVars, listVars, reviewVars, queue, counters>>

removeQueueItem(id) ==
    /\ UploadShown
    /\ queue' = SelectSeq(queue, LAMBDA x : x.id # id)
    /\ lastOp' = Op("remove", id, "", "", "", NoEntry)
    /\ UNCHANGED <<appVars, listVars, reviewVars, pipelines, counters>>

\* Line 118, and the first pass of the restarted progress loop.
RestartedKeepsError(q) == FirstPass([q EXCEPT !.status = "uploading", !.progress = 0])

Restarted(q) ==
    FirstPass([q EXCEPT !.status = "uploading", !.progress = 0, !.errorMessage = Undefined])

\* The Retry button is rendered for an item in the error state.
retryItem(id) ==
    /\ UploadShown
    /\ \E x \in Range(queue) : x.id = id /\ x.status = "error"
    /\ queueOps < MaxQueueOps
    /\ queueOps' = queueOps + 1
    /\ queue' = MapItem(queue, id, Restarted)
    /\ pipelines' = pipelines \cup {Started(id)}
    /\ lastOp' = Op("retry", id, "", "", "", NoEntry)
    /\ UNCHANGED <<appVars, listVars, reviewVars, uuidCounter, created, saves, editCount,
                   statusEdits, textEdits, deleted, downloads>>

(***************************************************************************)
(* Inputs: what the user types and chooses, and what the extraction         *)
(* service answers.                                                         *)
(***************************************************************************)
MoneyFields == {"amount_before_vat", "cost_before_vat", "commission_rate"}

TextFields == {"invoice_month", "invoice_number", "customer", "project", "receipt_number"}

InlineValues(field) ==
    CASE field = "commission_status" -> {"unpaid", "eligible", "paid"}
      [] field = "client_paid_date" -> {"", "2023-12-01"}
      [] field = "company_paid_date" -> {"", "2023-12-20"}
      [] field = "amount_before_vat" -> {"", "-100", "2000"}
      [] field = "cost_before_vat" -> {"-100", "300"}
      [] field = "commission_rate" -> {"10", "101"}
      [] field = "invoice_number" -> {" ", "inv-2023-001"}
      [] field = "invoice_month" -> {"2023-12-01"}
      [] field = "customer" -> {"Acme Corp"}
      [] field = "project" -> {"Audit"}
      [] field = "receipt_number" -> {"TI20230100"}

\* window.prompt: cancelled, left empty, or a date
PromptAnswers == {Undefined, "", "2023-12-24"}

DraftValues(field) ==
    CASE field = "invoice_number" -> {"INV-2023-001", "inv-2023-999"}
      [] field = "amount_before_vat" -> {"", "1000"}
      [] field = "cost_before_vat" -> {"", "300"}
      [] field = "commission_rate" -> {"10"}
      [] field = "tax" -> {"70"}
      [] field = "invoice_month" -> {"2023-12-01"}
      [] field = "customer" -> {"Acme Corp"}
      [] field = "project" -> {"Audit"}

ExtractedRecords ==
    {[invoice_number |-> "inv-2023-001", receipt_number |-> "TI20230101",
      customer |-> "Acme Corp", amount_before_vat |-> 10000, currency_code |-> "USD",
      invoice_date |-> "2023-11-15", project_description |-> "Audit"],
     [invoice_number |-> "INV-2023-999", receipt_number |-> Undefined,
      customer |-> "Wayne Enterprises", amount_before_vat |-> 100000,
      currency_code |-> Undefined, invoice_date |-> Undefined,
      project_description |-> Undefined]}

ExtractionOutcomes ==
    {[kind |-> "data", data |-> [records |-> <<r>>]] : r \in ExtractedRecords}
        \cup {[kind |-> k, data |-> Null] : k \in {"null", "timeout", "failure"}}

\* An invoice of two line items, both under the invoice's number.
TwoLineItems ==
    LET r == [invoice_number |-> "inv-7", receipt_number |-> Undefined,
              customer |-> "Acme Corp", amount_before_vat |-> 100000,
              currency_code |-> Undefined, invoice_date |-> "2023-11-15",
              project_description |-> Undefined]
    IN  [kind |-> "data",
         data |-> [records |-> <<r, [r EXCEPT !.invoice_number = "INV-7"]>>]]

ReviewOutcomes ==
    {o \in ExtractionOutcomes :
        \/ o.kind = "failure"
        \/ o.kind = "data" /\ ~Falsy(o.data.records[1].receipt_number)}
        \cup {TwoLineItems}

Pdf == [name |-> "invoice.pdf", type |-> "application/pdf"]

Txt == [name |-> "notes.txt", type |-> "text/plain"]

QueueIds == {x.id : x \in Range(queue)}

(***************************************************************************)
(* Specifications.  Each one takes the handlers of one part of the          *)
(* application, with App's mount and navigation.                            *)
(***************************************************************************)
Impersonations ==
    \E i \in 1..Len(profiles), confirmed \in BOOLEAN :
        handleImpersonate(profiles[i], confirmed)

InlineUpdates(fields, Values(_)) ==
    \E id \in ActiveIds, field \in fields :
        \E value \in Values(field), date \in PromptAnswers :
            handleInlineUpdate(id, field, value, date)

DraftChanges(fields) ==
    \E index \in 1..Len(items), field \in fields :
        \E value \in DraftValues(field) : handleChange(index, field, value)

SaveGates ==
    \/ \E index \in 1..Len(items) : handleSaveClick(index)
    \/ handleModalConfirm
    \/ handleModalCancel
    \/ handleReviewFinish
    \/ handleCancelReview

Pipelines(outcomes) ==
    \/ \E p \in pipelines : Tick(p)
    \/ \E p \in pipelines : BeginParse(p)
    \/ \E p \in pipelines, outcome \in outcomes : ExtractDone(p, outcome)

\* The commission entries: every handler that creates, changes or deletes
\* one, in a session of the administrator.
MoneyValues(field) ==
    CASE field = "amount_before_vat" -> {"-100", "2000"}
      [] field = "cost_before_vat" -> {"300"}
      [] field = "commission_rate" -> {"10"}

MoneyForms ==
    {f \in NewEntryForms : f.invoice_number = "INV-2023-999" /\ f.amount_before_vat = 1000}

\* The rows whose delete button is pressed: the first seeded entry and the
\* entries the session created.
DeletedRows == ActiveIds \ {"2", "3"}

Next ==
    \/ Mount
    \/ \E view \in {"commissions", "admin", "upload"} : Navigate(view)
    \/ InlineUpdates(MoneyFields, MoneyValues)
    \/ \E id \in DeletedRows, confirmed \in BOOLEAN : handleDeleteClick(id, confirmed)
    \/ openAddModal
    \/ closeAddModal
    \/ \E newEntry \in MoneyForms, confirmed \in BOOLEAN :
           handleAddSubmit(newEntry, confirmed)
    \/ handleManualEntry
    \/ DraftChanges({"amount_before_vat"})
    \/ SaveGates

Spec == Init /\ [][Next]_vars

\* The manual-add form, in the views that show it.
NextAdd ==
    \/ Mount
    \/ \E view \in {"dashboard", "commissions", "admin"} : Navigate(view)
    \/ Impersonations
    \/ \E mode \in {"personal", "team"} : setViewMode(mode)
    \/ openAddModal
    \/ closeAddModal
    \/ \E newEntry \in NewEntryForms, confirmed \in BOOLEAN :
           handleAddSubmit(newEntry, confirmed)

SpecAdd == Init /\ [][NextAdd]_vars

\* Persistence: the handlers that change the collection or the user, with
\* page reloads and logout.
NextPersist ==
    \/ Mount
    \/ Reload
    \/ handleLogout
    \/ \E view \in Views : Navigate(view)
    \/ Impersonations
    \/ \E id \in ActiveIds, confirmed \in BOOLEAN : handleDeleteClick(id, confirmed)
    \/ openAddModal
    \/ closeAddModal
    \/ \E newEntry \in MoneyForms, confirmed \in BOOLEAN :
           handleAddSubmit(newEntry, confirmed)

SpecPersist == Init /\ [][NextPersist]_vars

\* The status rules of the inline edits.
NextStatus ==
    \/ Mount
    \/ \E view \in {"dashboard", "commissions", "admin"} : Navigate(view)
    \/ Impersonations
    \/ \E mode \in {"personal", "team"} : setViewMode(mode)
    \/ InlineUpdates(StatusFields, InlineValues)

SpecStatus == Init /\ [][NextStatus]_vars

\* The invoice review, from an uploaded file or a manual entry.
NextReview ==
    \/ Mount
    \/ \E view \in {"upload", "admin"} : Navigate(view)
    \/ Impersonations
    \/ processFiles(<<Pdf>>)
    \/ Pipelines(ReviewOutcomes)
    \/ \E i \in 1..Len(queue) : handleStartReview(i)
    \/ handleManualEntry
    \/ DraftChanges({"invoice_number", "cost_before_vat"})
    \/ SaveGates

SpecReview == Init /\ [][NextReview]_vars

\* The upload queue.
NextUpload ==
    \/ Mount
    \/ \E view \in {"upload", "dashboard"} : Navigate(view)
    \/ \E files \in {<<Pdf>>, <<Txt, Pdf>>, <<Txt>>} : processFiles(files)
    \/ Pipelines(ExtractionOutcomes)
    \/ \E id \in QueueIds : removeQueueItem(id)
    \/ \E id \in QueueIds : retryItem(id)

SpecUpload == Init /\ [][NextUpload]_vars

\* The mapping of extracted records to drafts.  Amounts are in hundredths:
\* -100.00, 0, 0.02, 0.04 and 100.00; the codes are a missing one, the local
\* one, listed ones in either case, and one that is not listed.
RawAmounts == {-10000, 0, 2, 4, 10000}

RawCodes == {Undefined, "THB", "USD", "usd", "JPY", "XYZ"}

RawRecords ==
    {[invoice_number |-> "INV-7", receipt_number |-> Undefined, customer |-> "Acme Corp",
      amount_before_vat |-> a, currency_code |-> c, invoice_date |-> "2023-11-15",
      project_description |-> Undefined] : a \in RawAmounts, c \in RawCodes}

MappingOutcomes ==
    {[kind |-> "data", data |-> [records |-> <<r>>]] : r \in RawRecords}
        \cup {[kind |-> "data",
                data |-> [records |-> <<r, [r EXCEPT !.amount_before_vat = 4,
                                                     !.currency_code = "JPY"]>>]] :
                 r \in {x \in RawRecords : x.amount_before_vat = 10000 /\ x.currency_code = "USD"}}

NextMapping ==
    \/ Mount
    \/ Navigate("upload")
    \/ processFiles(<<Pdf>>)
    \/ Pipelines(MappingOutcomes)
    \/ \E i \in 1..Len(queue) : handleStartReview(i)
    \/ handleCancelReview

SpecMapping == Init /\ [][NextMapping]_vars

\* The administration: navigation, impersonation, reloads, and the roles and
\* teams given to the profiles in the users table.
UserRoles == {"admin", "manager", "user"}

NextAdmin ==
    \/ Mount
    \/ Reload
    \/ \E view \in Views : Navigate(view)
    \/ Impersonations
    \/ \E userId \in {"user-admin", "user-manager", "user-1"}, newRole \in UserRoles :
           handleRoleChange(userId, newRole)
    \/ \E teamId \in {"", "team-2"} : handleTeamChange("user-manager", teamId)

SpecAdmin == Init /\ [][NextAdmin]_vars

\* Whose entries are shown: the lists of every profile, under the roles and
\* teams the administrator gives them.
NextScope ==
    \/ Mount
    \/ \E view \in {"dashboard", "commissions", "admin"} : Navigate(view)
    \/ Impersonations
    \/ \E mode \in {"personal", "team"} : setViewMode(mode)
    \/ \E userId \in {"user-manager", "user-1"}, newRole \in {"manager", "user"} :
           handleRoleChange(userId, newRole)
    \/ \E userId \in {"user-manager", "user-2"}, teamId \in {"", "team-1", "team-2"} :
           handleTeamChange(userId, teamId)

SpecScope == Init /\ [][NextScope]_vars

\* The inline edits of every list, and the handler called with an id that no
\* row of the list has (its guard at lines 141-142 of CommissionList).
StrayId == "0"

FrameFields == {"amount_before_vat", "customer"}

NextFrame ==
    \/ Mount
    \/ \E view \in {"commissions", "admin"} : Navigate(view)
    \/ Impersonations
    \/ \E mode \in {"personal", "team"} : setViewMode(mode)
    \/ InlineUpdates(FrameFields, InlineValues)
    \/ \E field \in FrameFields :
           \E value \in InlineValues(field) :
               ListShown /\ handleInlineUpdate(StrayId, field, value, Undefined)

SpecFrame == Init /\ [][NextFrame]_vars

\* Every role in every list: status edits and deletes of the rows shown.
NextRoles ==
    \/ Mount
    \/ \E view \in {"dashboard", "commissions", "admin"} : Navigate(view)
    \/ Impersonations
    \/ \E mode \in {"personal", "team"} : setViewMode(mode)
    \/ InlineUpdates({"commission_status"}, InlineValues)
    \/ \E id \in ActiveIds, confirmed \in BOOLEAN : handleDeleteClick(id, confirmed)

SpecRoles == Init /\ [][NextRoles]_vars

\* The filters of the list, with a sort: what is typed in the search box and
\* chosen in the month, status and user controls.
SearchTerms == {"", "ACME", "2023-9"}

MonthFilters == {"", "2023-11", "2023-10"}

NextFilter ==
    \/ Mount
    \/ \E view \in {"commissions", "admin"} : Navigate(view)
    \/ Impersonations
    \/ \E mode \in {"personal", "team"} : setViewMode(mode)
    \/ \E value \in SearchTerms : setSearchTerm(value)
    \/ \E value \in {"all", "unpaid", "eligible", "paid"} : setStatusFilter(value)
    \/ \E value \in MonthFilters : setMonthFilter(value)
    \/ \E value \in {"all", "user-1", "user-2"} : setUserFilter(value)
    \/ handleSort("invoice_month")

SpecFilter == Init /\ [][NextFilter]_vars

\* The export.  The page is opened with what an earlier session left in the
\* store: nothing, or a collection of ExportLimit + 1 entries of the
\* administrator, the first of them paid and the others unpaid.
StoredEntry(i) ==
    [id |-> ToString(i), user_id |-> "user-admin",
     invoice_number |-> "INV-" \o ToString(i), customer |-> "Acme Corp",
     project |-> "Audit", amount_before_vat |-> 1000, cost_before_vat |-> 200,
     commission_rate |-> 5, tax |-> 7, net_total |-> 800, net_to_pay |-> 40,
     invoice_month |-> "2023-11-01",
     commission_status |-> IF i = 1 THEN "paid" ELSE "unpaid"]

StoredSessions ==
    {EmptyStorage,
     [k \in {"app_commissions"} |-> [i \in 1..(ExportLimit + 1) |-> StoredEntry(i)]]}

InitExport ==
    /\ user = Null /\ profiles = <<>> /\ teams = <<>> /\ commissions = <<>>
    /\ currentView = "dashboard" /\ isLoading = TRUE
    /\ reviewFile = Null /\ reviewData = Null
    /\ localStorage \in StoredSessions
    /\ FreshList /\ FreshReview /\ FreshUpload
    /\ uuidCounter = 0 /\ created = 0 /\ saves = 0 /\ queueOps = 0
    /\ editCount = 0 /\ statusEdits = 0 /\ textEdits = 0
    /\ deleted = {} /\ downloads = <<>>
    /\ lastOp = NoOp

NextExport ==
    \/ Mount
    \/ \E view \in {"commissions", "admin"} : Navigate(view)
    \/ \E value \in {"all", "unpaid", "eligible", "paid"} : setStatusFilter(value)
    \/ \E value \in {"", "2023-11"} : setMonthFilter(value)
    \/ handleExport

SpecExport == InitExport /\ [][NextExport]_vars

\* The sheet of the seeded collection, filtered and sorted, in every list.
NextSheet ==
    \/ Mount
    \/ \E view \in {"commissions", "admin"} : Navigate(view)
    \/ Impersonations
    \/ \E mode \in {"personal", "team"} : setViewMode(mode)
    \/ \E value \in {"all", "eligible"} : setStatusFilter(value)
    \/ \E value \in MonthFilters : setMonthFilter(value)
    \/ \E key \in {"net_to_pay", "client_paid_date"} : handleSort(key)
    \/ handleExport

SpecSheet == Init /\ [][NextSheet]_vars

\* The sorted list: header clicks, and edits of the client-paid date and of
\* the company-paid date, which are unset in most seeded entries.
NextSort ==
    \/ Mount
    \/ \E view \in {"commissions", "admin"} : Navigate(view)
    \/ \E key \in SortKeys : handleSort(key)
    \/ InlineUpdates({"client_paid_date", "company_paid_date"}, InlineValues)

SpecSort == Init /\ [][NextSort]_vars

\* The inline edits of the amounts, the rate and the invoice number, with
\* values that pass and values that fail the validation.
ValidatedFields == MoneyFields \cup {"invoice_number"}

NextInline ==
    \/ Mount
    \/ \E view \in {"commissions", "admin"} : Navigate(view)
    \/ InlineUpdates(ValidatedFields, InlineValues)

SpecInline == Init /\ [][NextInline]_vars

\* Two files dropped together on the empty queue, in flight at once, and
\* the retries and removals that follow.  Every timer of a progress loop fires,
\* and the extraction call ends (its own answer, or the 30 s timeout that
\* races it), or the FileReader ends in an error: a running call is not
\* suspended for ever.
PipelineStep(id) ==
    \E p \in pipelines :
        /\ p.id = id
        /\ \/ Tick(p)
           \/ BeginParse(p)
           \/ \E outcome \in ExtractionOutcomes : ExtractDone(p, outcome)
           \/ ReadFailed(p)

UploadIds == {"uuid-1", "uuid-2"}

NextQueue ==
    \/ Mount
    \/ Navigate("upload")
    \/ queueOps = 0 /\ processFiles(<<Pdf, Pdf>>)
    \/ \E id \in UploadIds : PipelineStep(id)
    \/ \E id \in QueueIds : removeQueueItem(id)
    \/ \E id \in QueueIds : retryItem(id)

SpecQueue ==
    Init /\ [][NextQueue]_vars /\ \A id \in UploadIds : WF_vars(PipelineStep(id))

\* Drops of more files than the queue takes, on the empty, the part filled
\* and the full queue, with removals and retries; of the pipelines only the
\* one of the first item goes on.
SixPdfs == <<Pdf, Pdf, Pdf, Pdf, Pdf, Pdf>>

NextLimit ==
    \/ Mount
    \/ Navigate("upload")
    \/ \E files \in {SixPdfs, <<Txt, Pdf, Pdf>>, <<Pdf>>, <<Txt>>} : processFiles(files)
    \/ PipelineStep("uuid-1")
    \/ \E id \in QueueIds : removeQueueItem(id)
    \/ \E id \in QueueIds : retryItem(id)

SpecLimit == Init /\ [][NextLimit]_vars

(***************************************************************************)
(* Properties.                                                              *)
(***************************************************************************)
Ids(s) == {e.id : e \in Range(s)}

SeedIds == Ids(MOCK_ENTRIES)

\* The inline edit that just ran was applied to its row.
Applied(op) == op.op = "inline" /\ op.answer \notin {"readonly", "missing"}

\* C1: after any sequence of manual adds, review saves, inline updates and
\* deletes, every entry of the collection has net_total = amount_before_vat -
\* cost_before_vat and net_to_pay = net_total * commission_rate / 100.
TotalsConsistent ==
    \A e \in Range(commissions) :
        /\ e.net_total = e.amount_before_vat - e.cost_before_vat
        /\ e.net_to_pay * 100 = e.net_total * e.commission_rate

\* An entry the session created was edited inline, after a manual add, a
\* review save and a delete.
TotalsConsistentWitness ==
    /\ Applied(lastOp) /\ lastOp.field = "amount_before_vat" /\ lastOp.value = "2000"
    /\ lastOp.id \notin SeedIds
    /\ created = 1 /\ saves >= 1 /\ "1" \notin Ids(commissions)
    /\ \E e \in Range(commissions) :
           e.id = lastOp.id /\ e.net_total = 2000 - e.cost_before_vat /\ e.net_to_pay # 0

\* C2: an inline edit of commission_status to paid, on an entry without
\* company_paid_date, with no date given at the prompt, leaves the entry
\* unchanged: same commission_status, company_paid_date still unset.
PaidWithoutDateAbandoned ==
    [][(/\ Applied(lastOp') /\ lastOp'.field = "commission_status"
        /\ lastOp'.value = "paid"
        /\ Falsy(Find(commissions, lastOp'.id).company_paid_date)
        /\ Falsy(lastOp'.answer))
       => /\ Find(commissions', lastOp'.id).commission_status = lastOp'.was
          /\ Falsy(Find(commissions', lastOp'.id).company_paid_date)
          /\ commissions' = commissions]_vars

\* C3: an inline edit of client_paid_date to a non-empty value makes an unpaid
\* entry eligible, and leaves the status of an eligible or paid entry as it was.
ClientPaidDateRule ==
    [][(Applied(lastOp') /\ lastOp'.field = "client_paid_date" /\ lastOp'.value # "")
       => LET before == Find(commissions, lastOp'.id)
              after == Find(commissions', lastOp'.id)
          IN  /\ after.client_paid_date = lastOp'.value
              /\ after.commission_status =
                     IF before.commission_status = "unpaid" THEN "eligible"
                     ELSE before.commission_status]_vars

\* A date was typed on an entry that an earlier edit had set back to unpaid.
ClientPaidDateRuleWitness ==
    /\ Applied(lastOp) /\ lastOp.field = "client_paid_date" /\ lastOp.value = "2023-12-01"
    /\ lastOp.was = "unpaid" /\ lastOp.id = "1"
    /\ Find(commissions, "1").commission_status = "eligible"

\* C4: a direct status edit other than 'paid with no company_paid_date' is
\* applied at once from any status, and changes no field of the entry but
\* commission_status; no other entry changes.
DirectStatusEdit ==
    [][(/\ Applied(lastOp') /\ lastOp'.field = "commission_status"
        /\ ~(lastOp'.value = "paid"
             /\ Falsy(Find(commissions, lastOp'.id).company_paid_date)))
       => /\ Len(commissions') = Len(commissions)
          /\ \A i \in 1..Len(commissions) :
                 commissions'[i] =
                     IF commissions[i].id = lastOp'.id
                     THEN [commissions[i] EXCEPT !.commission_status = lastOp'.value]
                     ELSE commissions[i]]_vars

\* A paid entry with both dates set was moved back to unpaid.
DirectStatusEditWitness ==
    /\ Applied(lastOp) /\ lastOp.field = "commission_status"
    /\ lastOp.value = "unpaid" /\ lastOp.was = "paid"
    /\ \E e \in Range(commissions) :
           /\ e.id = lastOp.id /\ e.commission_status = "unpaid"
           /\ ~Falsy(e.client_paid_date) /\ ~Falsy(e.company_paid_date)

\* The line item a review handler was called with.
Index(op) == CHOOSE index \in 1..Len(items) : ToString(index) = op.id

\* The handler that just ran went through the duplicate check of a line item.
DuplicateChecked(op) ==
    \/ op.op = "saveClick" /\ items[Index(op)].cost_before_vat # ""
    \/ op.op = "confirm" /\ op.field = "cost_empty"

\* C5: saving a line item of the review passes the gates in order: a blank
\* cost raises the cost prompt first, the duplicate check runs only once it is
\* confirmed, an entry is created only after every gate that fired was
\* confirmed, and cancelling a prompt creates nothing and leaves the line
\* item unsaved.
SaveGatesInOrder ==
    [][/\ (lastOp'.op = "saveClick" /\ items[Index(lastOp')].cost_before_vat = "")
          => /\ modalConfig' = Gate("cost_empty", Index(lastOp'))
             /\ commissions' = commissions /\ savedIds' = savedIds
       /\ (modalConfig' # Null /\ modalConfig' # modalConfig
              /\ modalConfig'.type = "duplicate")
          => \/ modalConfig = Null /\ lastOp'.op = "saveClick"
                /\ items[modalConfig'.index].cost_before_vat # ""
             \/ modalConfig = Gate("cost_empty", modalConfig'.index)
                /\ lastOp'.op = "confirm"
       /\ (ReviewShown /\ commissions' # commissions)
          => \E index \in 1..Len(items) :
                 /\ index \notin savedIds /\ savedIds' = savedIds \cup {index}
                 /\ Len(commissions') = Len(commissions) + 1
                 /\ \/ /\ modalConfig = Null /\ lastOp'.op = "saveClick"
                       /\ items[index].cost_before_vat # ""
                       /\ ~isDuplicate(items[index])
                    \/ /\ modalConfig = Gate("cost_empty", index)
                       /\ lastOp'.op = "confirm" /\ ~isDuplicate(items[index])
                    \/ /\ modalConfig = Gate("duplicate", index)
                       /\ lastOp'.op = "confirm"
       /\ lastOp'.op = "cancelGate"
          => /\ modalConfig # Null /\ modalConfig' = Null
             /\ commissions' = commissions /\ savedIds' = savedIds
             /\ items' = items]_vars

\* A line item with a blank cost and a duplicate number was saved: both
\* prompts were confirmed, the cost one first.
SaveGatesInOrderWitness ==
    /\ lastOp.op = "confirm" /\ lastOp.field = "duplicate"
    /\ \E index \in savedIds :
           /\ ToString(index) = lastOp.id
           /\ items[index].cost_before_vat = "0"
           /\ commissions[1].invoice_number = items[index].invoice_number
           /\ commissions[1].cost_before_vat = 0

\* C6: the review raises the duplicate prompt exactly when an entry of the
\* acting user has the same invoice number, compared without case (entries
\* of other users never raise it, an entry saved earlier in the session
\* does); a confirmed duplicate is added.
DuplicatePromptExact ==
    [][/\ DuplicateChecked(lastOp')
          => LET index == Index(lastOp')
                 exists == \E c \in Range(commissions) :
                               /\ c.user_id = user.id
                               /\ toLowerCase(c.invoice_number)
                                      = toLowerCase(items[index].invoice_number)
             IN  IF exists
                 THEN modalConfig' = Gate("duplicate", index) /\ commissions' = commissions
                 ELSE modalConfig' = Null /\ index \in savedIds'
       /\ (lastOp'.op = "confirm" /\ lastOp'.field = "duplicate")
          => /\ Len(commissions') = Len(commissions) + 1
             /\ SubSeq(commissions', 2, Len(commissions')) = commissions
             /\ commissions'[1].invoice_number = items[Index(lastOp')].invoice_number
             /\ commissions'[1].user_id = user.id
             /\ Index(lastOp') \in savedIds']_vars

\* The second line item of an invoice raised the prompt because of the first
\* one, saved in the same session under the number in another case.
DuplicatePromptExactWitness ==
    /\ modalConfig = Gate("duplicate", 2) /\ 1 \in savedIds
    /\ items[1].invoice_number # items[2].invoice_number
    /\ \A c \in Range(commissions) :
           toLowerCase(c.invoice_number) = toLowerCase(items[2].invoice_number)
               => c.invoice_number = items[1].invoice_number /\ c.user_id = user.id
    /\ \E c \in Range(commissions) : c.invoice_number = items[1].invoice_number

\* C7: a manual-add submission of an invoice number that already exists asks
\* for confirmation; declining leaves the collection unchanged, confirming
\* adds a second entry with that invoice number, in every view that shows
\* the form.
ManualAddDuplicate ==
    [][/\ (lastOp'.op = "add" /\ lastOp'.answer = "cancel")
          => commissions' = commissions
       /\ (lastOp'.op = "add" /\ lastOp'.answer = "ok")
          => /\ \E c \in Range(commissions) :
                    toLowerCase(c.invoice_number) = toLowerCase(lastOp'.value)
             /\ Len(commissions') = Len(commissions) + 1
             /\ \E c \in Range(commissions') :
                    c.id = lastOp'.id /\ c.invoice_number = lastOp'.value]_vars

\* C8: what is stored mirrors what is in memory: after every state change a
\* reload would restore exactly the commissions, the profiles, the teams and
\* the current user.
StorageMirrorsState ==
    (~isLoading /\ user # Null)
        => /\ {"app_commissions", "app_profiles", "app_teams", "app_user"}
                  \subseteq DOMAIN localStorage
           /\ JSONparse(localStorage["app_commissions"], EntryKeys) = commissions
           /\ JSONparse(localStorage["app_profiles"], ProfileKeys) = profiles
           /\ JSONparse(localStorage["app_teams"], TeamKeys) = teams
           /\ ParseObject(localStorage["app_user"], ProfileKeys) = user

\* C9: a declined delete changes nothing; a confirmed delete removes the
\* entry of that id and no other, and the entry never comes back, not even
\* after a reload.
DeleteIsFinal ==
    [][/\ lastOp'.op = "delete"
          => commissions' = IF lastOp'.answer = "ok"
                            THEN SelectSeq(commissions, LAMBDA c : c.id # lastOp'.id)
                            ELSE commissions
       /\ Ids(commissions') \cap deleted' = {}]_vars

\* An upload item's step from x to y is one of the transitions of the pipeline.
Transition(x, y) ==
    \/ x.status = y.status
    \/ x.status = "uploading" /\ y.status = "parsing"
           /\ x.progress = ProgressFull /\ y.progress = ProgressFull
    \/ x.status = "parsing" /\ y.status \in {"ready", "error"}
    \/ x.status = "error" /\ y.status = "uploading"

\* C10: an upload item's status only moves uploading -> parsing (once its
\* progress is 100) -> ready or error, and error -> uploading on a retry;
\* ready is terminal; an item holds extracted data exactly when it is ready.
UploadStatusMachine ==
    [][\A y \in Range(queue') :
           /\ (y.extractedData # Null) <=> (y.status = "ready")
           /\ \A x \in Range(queue) : x.id = y.id => Transition(x, y)
           /\ y.id \notin Ids(queue) => y.status = "uploading"]_vars

\* An item whose first extraction failed was retried and is ready now, with
\* its data.
UploadStatusMachineWitness ==
    /\ lastOp.op = "extracted" /\ lastOp.answer = "data"
    /\ \E x \in Range(queue) :
           /\ x.id = lastOp.id /\ x.status = "ready" /\ x.extractedData # Null
           /\ x.progress = ProgressFull
    /\ queueOps = 2 /\ Len(queue) = 1 /\ uuidCounter = 1

\* The steps of one item's pipeline, and the retry that starts it again.
ItemOps == {"tick", "parsing", "extracted", "readFailed", "retry"}

\* C11: queue items are independent.  A progress tick, the start of parsing,
\* an extraction result or failure, or a retry of one item leaves the queue's
\* length and every field of every other item as they were and takes no other
\* item's pipeline away; removing an item leaves the other items as they were.
QueueItemsIndependent ==
    [][/\ lastOp'.op \in ItemOps
           => /\ Len(queue') = Len(queue)
              /\ \A k \in 1..Len(queue) :
                     queue[k].id # lastOp'.id => queue'[k] = queue[k]
              /\ \A p \in pipelines : p.id # lastOp'.id => p \in pipelines'
       /\ lastOp'.op = "remove"
           => /\ queue' = SelectSeq(queue, LAMBDA x : x.id # lastOp'.id)
              /\ pipelines' = pipelines]_vars

\* An item has just become ready while another item of the queue, whose
\* extraction failed, is in the error state.
QueueItemsIndependentWitness ==
    /\ lastOp.op = "extracted" /\ lastOp.answer = "data"
    /\ \E x, y \in Range(queue) :
           /\ x.id = lastOp.id /\ x.status = "ready"
           /\ y.id # x.id /\ y.status = "error" /\ y.errorMessage = "Extraction failed"

\* An item of the queue that is still uploading or parsing / that is done.
InFlight(id) == \E x \in Range(queue) : x.id = id /\ x.status \in {"uploading", "parsing"}

Settled(id) == \E x \in Range(queue) : x.id = id /\ x.status \in {"ready", "error"}

\* C12: every queued item that is not removed eventually reaches ready or
\* error; none stays in uploading or parsing for ever.
UploadTerminates ==
    \A id \in UploadIds : InFlight(id) ~> (Settled(id) \/ id \notin QueueIds)

\* The pipelines of item id.
PipelinesOf(ps, id) == {p \in ps : p.id = id}

\* C13: a retry is taken only on an item in the error state, whose pipeline
\* is over; right after it the item is uploading with no error message and no
\* data, its progress is that of the first pass of the restarted loop, and
\* one pipeline runs for it from the beginning.  Every later pass adds one
\* step of progress, parsing starts only at full progress, a result comes
\* only from an extraction call made after that, and no item ever has two
\* pipelines.
RetryRestarts ==
    [][/\ lastOp'.op = "retry"
           => \E k \in 1..Len(queue) :
                 /\ queue[k].id = lastOp'.id /\ queue[k].status = "error"
                 /\ PipelinesOf(pipelines, lastOp'.id) = {}
                 /\ queue'[k] = [queue[k] EXCEPT !.status = "uploading",
                                                 !.progress = ProgressStep,
                                                 !.errorMessage = Undefined]
                 /\ queue'[k].extractedData = Null
                 /\ PipelinesOf(pipelines', lastOp'.id) = {Started(lastOp'.id)}
       /\ \A k \in 1..Len(queue) :
              queue[k].id = lastOp'.id =>
                  /\ lastOp'.op = "tick"
                         => queue'[k].progress = queue[k].progress + ProgressStep
                  /\ lastOp'.op = "parsing" => queue[k].progress = ProgressFull
                  /\ lastOp'.op = "extracted"
                         => /\ queue[k].status = "parsing"
                            /\ PipelinesOf(pipelines, lastOp'.id)
                                   = {[id |-> lastOp'.id, pc |-> "extract",
                                       i |-> ProgressFull + ProgressStep]}
       /\ \A id \in UploadIds : Cardinality(PipelinesOf(pipelines', id)) <= 1]_vars

\* An item whose extraction failed has just been retried, while the other
\* item of the queue is still in flight.
RetryRestartsWitness ==
    /\ lastOp.op = "retry"
    /\ \E x, y \in Range(queue) :
           /\ x.id = lastOp.id /\ x.status = "uploading" /\ x.progress = ProgressStep
           /\ x.errorMessage = Undefined
           /\ y.id # x.id /\ y.status \in {"uploading", "parsing"}
    /\ Cardinality(pipelines) = 2

\* C13 as stated: right after a retry the item's progress is 0.
RetryProgressZero ==
    [][lastOp'.op = "retry"
           => \E x \in Range(queue') :
                 /\ x.id = lastOp'.id /\ x.status = "uploading"
                 /\ x.progress = 0 /\ x.errorMessage = Undefined]_vars

\* C14: the entry a review save creates is eligible when the draft line item
\* has a client-paid date at that moment and unpaid otherwise, and carries
\* that date; a draft has a client-paid date exactly when a receipt number was
\* extracted for it, and holds no status of its own before the save.
ReviewStatusAtSave ==
    [][/\ (ReviewShown /\ commissions' # commissions)
          => \E index \in savedIds' \ savedIds :
                 LET date == items[index].client_paid_date
                 IN  /\ commissions'[1].commission_status
                            = IF date # Undefined /\ date # "" THEN "eligible" ELSE "unpaid"
                     /\ commissions'[1].client_paid_date = date
       /\ ReviewShown'
          => \A k \in 1..Len(items') :
                 /\ (items'[k].client_paid_date # Undefined)
                        <=> (reviewData'.records[k].receipt_number
                                \notin {Undefined, ""})
                 /\ "commission_status" \notin DOMAIN items'[k]]_vars

\* The line item of an extracted receipt has just been saved as an eligible
\* entry with the draft's client-paid date.
ReviewStatusAtSaveWitness ==
    /\ ReviewShown /\ lastOp.answer = "saved" /\ savedIds = {1}
    /\ items[1].receipt_number = "TI20230101"
    /\ items[1].client_paid_date = "2023-11-15"
    /\ commissions[1].commission_status = "eligible"
    /\ commissions[1].client_paid_date = "2023-11-15"

\* Saving marks the one line item saved, and a line item is saved at most
\* once: every new entry comes with one line item that was not saved before.
SavedOnce ==
    /\ savedIds' # savedIds /\ savedIds' # {}
           => \E index \in 1..Len(items) :
                  /\ index \notin savedIds /\ savedIds' = savedIds \cup {index}
                  /\ Len(commissions') = Len(commissions) + 1
    /\ (ReviewShown /\ commissions' # commissions) => savedIds' # savedIds

\* A saved line item's draft stays as it is while the review is open.
SavedLocked ==
    (ReviewShown /\ ReviewShown') => \A index \in savedIds : items'[index] = items[index]

\* C15: each line item of the review tracks its saved state on its own and
\* is locked once it is saved: it can no longer be edited or saved, so it
\* creates at most one entry in a review session.
SavedItemsLocked == [][SavedOnce /\ SavedLocked]_vars

\* The manual-add form that was just submitted created an entry.
Added(op) == op.op = "add" /\ op.answer \in {"ok", "unasked"} /\ commissions' # commissions

\* C16: the entry the manual-add form creates from an amount a >= 0, a cost
\* c >= 0 and a rate r in 0..100 is stored with commission_rate = r,
\* net_total = a - c and net_to_pay = (a - c) * r / 100, for r = 0 as well.
ManualAddTotals ==
    [][Added(lastOp')
          => LET form == lastOp'.was
                 a == form.amount_before_vat
                 c == form.cost_before_vat
                 r == form.commission_rate
                 e == commissions'[1]
             IN  (a >= 0 /\ c >= 0 /\ r \in 0..100)
                     => /\ e.id = lastOp'.id
                        /\ e.amount_before_vat = a /\ e.cost_before_vat = c
                        /\ e.commission_rate = r
                        /\ e.net_total = a - c
                        /\ e.net_to_pay * 100 = (a - c) * r]_vars

\* The value fails the validation of the field.
FailsValidation(field, value) ==
    \/ field \in {"amount_before_vat", "cost_before_vat"} /\ Number(value) < 0
    \/ field = "commission_rate" /\ Number(value) \notin 0..100
    \/ field = "invoice_number" /\ trim(value) = ""

\* C17: an inline edit of an amount, the rate or the invoice number is
\* applied to its entry whether or not the value passes the validation (the
\* field gets the value, the totals follow, nothing else of the collection
\* changes); the validation only sets the field's invalid flag, which is
\* raised by a failing value and lowered by a passing one, and touches no
\* other flag.
InvalidEditApplied ==
    [][(Applied(lastOp') /\ lastOp'.field \in ValidatedFields)
          => LET id == lastOp'.id
                 field == lastOp'.field
                 value == lastOp'.value
                 key == id \o "-" \o field
             IN  /\ Len(commissions') = Len(commissions)
                 /\ \A i \in 1..Len(commissions) :
                        LET old == commissions[i]
                            new == commissions'[i]
                        IN  IF old.id # id THEN new = old
                            ELSE /\ new[field] = IF field = "invoice_number"
                                                 THEN value ELSE Number(value)
                                 /\ \A f \in DOMAIN old \ {field, "net_total", "net_to_pay"} :
                                        new[f] = old[f]
                                 /\ new.net_total
                                        = new.amount_before_vat - new.cost_before_vat
                                 /\ new.net_to_pay
                                        = Percent(new.net_total, new.commission_rate)
                 /\ DOMAIN invalidFields' = DOMAIN invalidFields \cup {key}
                 /\ invalidFields'[key] = FailsValidation(field, value)
                 /\ \A k \in DOMAIN invalidFields \ {key} :
                        invalidFields'[k] = invalidFields[k]]_vars

\* The second edit of an entry's invoice number typed a blank one: it is in
\* the collection, and the field is flagged.
InvalidEditAppliedWitness ==
    /\ Applied(lastOp) /\ lastOp.field = "invoice_number" /\ lastOp.value = " "
    /\ textEdits = 2 /\ editCount = 0
    /\ DOMAIN invalidFields = {lastOp.id \o "-invoice_number"}
    /\ invalidFields[lastOp.id \o "-invoice_number"] = TRUE
    /\ Find(commissions, lastOp.id).invoice_number = " "

\* A manager is looking at the entries of the team.
ManagerTeamView ==
    /\ ListShown /\ currentView = "commissions"
    /\ user.role = "manager" /\ viewMode = "team"

\* C18: while a manager is in the team view no inline update and no delete
\* changes the collection; an entry is changed or removed only in the admin
\* panel or in the personal view of the user it belongs to.
RolesGateEditing ==
    [][/\ (ManagerTeamView /\ lastOp'.op \in {"inline", "delete"})
          => commissions' = commissions
       /\ \A e \in Range(commissions) :
              e \notin Range(commissions')
                  => \/ AdminPanelShown
                     \/ /\ ListShown /\ currentView = "commissions"
                        /\ ~ManagerTeamView
                        /\ e.user_id = user.id]_vars

\* A manager in the team view has just pressed delete on the entry of a
\* team member, and confirmed: the collection is as it was seeded.
RolesGateEditingWitness ==
    /\ ManagerTeamView
    /\ lastOp.op = "delete" /\ lastOp.answer = "readonly"
    /\ lastOp.id \in Ids(teamCommissions)
    /\ Find(commissions, lastOp.id).user_id # user.id
    /\ commissions = MOCK_ENTRIES

\* The value an entry has for a key is undefined.
Unset(e, key) == key \in OptionalKeys /\ e[key] = Undefined

\* C19: the sorted view holds the entries of the list, each once; an entry
\* whose value for the sort key is undefined comes after every entry with a
\* value, in both directions; the entries with a value are in non-decreasing
\* order when the direction is ascending and in non-increasing order when it
\* is descending.
SortedView ==
    (ListShown /\ sortConfig # Null)
        => LET view == filteredEntries
               key == sortConfig.key
           IN  /\ Len(view) = Len(activeEntries)
               /\ \A e \in Range(activeEntries) :
                      Cardinality({i \in 1..Len(view) : view[i] = e})
                          = Cardinality({i \in 1..Len(activeEntries) : activeEntries[i] = e})
               /\ \A i, j \in 1..Len(view) :
                      i < j =>
                          /\ Unset(view[i], key) => Unset(view[j], key)
                          /\ (~Unset(view[i], key) /\ ~Unset(view[j], key))
                                 => IF sortConfig.direction = "asc"
                                    THEN ~Less(key, view[j][key], view[i][key])
                                    ELSE ~Less(key, view[i][key], view[j][key])

\* The administrator's list sorted by client-paid date, descending: the
\* entry whose date an edit has set, then the seeded date, then the entry
\* without one.
SortedViewWitness ==
    /\ AdminPanelShown
    /\ sortConfig = [key |-> "client_paid_date", direction |-> "desc"]
    /\ Len(filteredEntries) = 3
    /\ filteredEntries[1].client_paid_date = "2023-12-01"
    /\ filteredEntries[2].client_paid_date = "2023-10-15"
    /\ filteredEntries[3].client_paid_date = Undefined

\* C20: a click on the header of the current sort key flips the direction,
\* ascending to descending and descending to ascending; a click on another
\* header, or the first click, sets that key with the ascending direction.
SortClicks ==
    [][lastOp'.op = "sort"
          => /\ sortConfig'.key = lastOp'.field
             /\ sortConfig'.direction =
                    IF sortConfig = Null THEN "asc"
                    ELSE IF sortConfig.key # lastOp'.field THEN "asc"
                    ELSE IF sortConfig.direction = "asc" THEN "desc" ELSE "asc"]_vars

\* The header of the sort key was clicked when the direction was ascending.
SortClicksWitness ==
    /\ lastOp.op = "sort" /\ sortConfig # Null
    /\ sortConfig.key = lastOp.field /\ sortConfig.direction = "desc"

\* The text begins with the prefix, character by character.
BeginsWith(text, prefix) ==
    /\ Len(text) >= Len(prefix)
    /\ \A i \in 1..Len(prefix) : Char(text, i) = Char(prefix, i)

\* The entry passes the search, status and user filters that are set.
PassesOtherFilters(e) ==
    /\ searchTerm # "" => MatchesSearch(e, toLowerCase(searchTerm))
    /\ statusFilter # "all" => e.commission_status = statusFilter
    /\ (allowUserFilter /\ userFilter # "all") => e.user_id = userFilter

\* With a month filter set, the view holds exactly the active entries whose
\* month starts with it and that pass the other filters, each once.
MonthFilterView ==
    (ListShown /\ monthFilter # "")
        => /\ Range(filteredEntries)
                  = {e \in Range(activeEntries) :
                         BeginsWith(e.invoice_month, monthFilter) /\ PassesOtherFilters(e)}
           /\ Cardinality(Range(filteredEntries)) = Len(filteredEntries)

\* C21: with a month filter set, the filtered view holds exactly the active
\* entries whose invoice_month starts with the filter and that pass the other
\* filters that are set; and no change of a filter or of the sort changes the
\* collection.
MonthFilterExact ==
    /\ []MonthFilterView
    /\ [][lastOp'.op \in {"search", "statusFilter", "monthFilter", "userFilter", "sort"}
              => commissions' = commissions /\ localStorage' = localStorage]_vars

\* The administrator's list filtered to November 2023: the seeded entries
\* of 2023-11-15 and 2023-11-20 and not the one of 2023-10-01.
MonthFilterExactWitness ==
    /\ AdminPanelShown /\ lastOp.op = "monthFilter" /\ monthFilter = "2023-11"
    /\ searchTerm = "" /\ statusFilter = "all" /\ userFilter = "all"
    /\ Ids(filteredEntries) = {"2", "3"}
    /\ Ids(commissions) = {"1", "2", "3"}

\* C22: the export writes no file when the filtered view is empty or has
\* more than 5000 rows, and writes one file, of the rows of the view and a
\* totals row, when the view has 1 to 5000 rows.
ExportGuardrail ==
    [][lastOp'.op = "export"
          => LET n == Len(filteredEntries)
             IN  IF n = 0 \/ n > 5000
                 THEN downloads' = downloads
                 ELSE /\ Len(downloads') = Len(downloads) + 1
                      /\ SubSeq(downloads', 1, Len(downloads)) = downloads
                      /\ Len(downloads'[Len(downloads')].data) = n + 1]_vars

\* The export was asked for on a view of 5001 rows: nothing was written.
ExportGuardrailWitness ==
    /\ lastOp.op = "export" /\ lastOp.answer = "limit"
    /\ Len(filteredEntries) = 5001 /\ downloads = <<>>

\* The file that was just written, and the view it was written from.
Sheet == downloads'[Len(downloads')].data

Exported(op) == op.op = "export" /\ op.answer = "file"

\* One row per entry of the view, in the order of the view, then one totals
\* row with the sums of the five summed columns.
SheetRows ==
    LET view == filteredEntries
    IN  /\ Len(Sheet) = Len(view) + 1
        /\ \A i \in 1..Len(view) :
               /\ Sheet[i]["Invoice Number"] = view[i].invoice_number
               /\ Sheet[i]["Status"] = view[i].commission_status
               /\ \A col \in SummedColumns : Sheet[i][col] = view[i][ColumnKey(col)]
        /\ \A col \in SummedColumns :
               Sheet[Len(Sheet)][col] = SumOf(view, ColumnKey(col), 1, Len(view))

\* C23: the export has one row per entry of the filtered and sorted view, in
\* view order, then exactly one totals row: its amount, cost, net total, net
\* to pay and tax cells are the sums over the view, its Invoice Number cell
\* holds the label TOTALS, and every other cell of it is blank.
SheetTotals ==
    [][Exported(lastOp')
          => /\ SheetRows
             /\ Sheet[Len(Sheet)]["Invoice Number"] = "TOTALS"
             /\ \A col \in DOMAIN Sheet[Len(Sheet)] \ (SummedColumns \cup {"Invoice Number"}) :
                    Sheet[Len(Sheet)][col] = ""]_vars

\* A manager's team view sorted by net to pay, descending, was exported:
\* two rows in that order, and the totals row with their sum.
SheetTotalsWitness ==
    /\ lastOp.op = "export" /\ lastOp.answer = "file" /\ Len(downloads) = 1
    /\ ManagerTeamView /\ sortConfig = [key |-> "net_to_pay", direction |-> "desc"]
    /\ Len(downloads[1].data) = 4
    /\ downloads[1].data[1]["Net to Pay"] = 600
    /\ downloads[1].data[3]["Net to Pay"] = 225
    /\ downloads[1].data[4]["Net to Pay"] = 1225
    /\ downloads[1].data[4]["Freelancer"] = ""

\* C23 as stated: every non-numeric cell of the totals row is blank.
SheetTotalsAllBlank ==
    [][Exported(lastOp')
          => /\ SheetRows
             /\ \A col \in DOMAIN Sheet[Len(Sheet)] \ (SummedColumns \cup {"Commission Rate (%)"}) :
                    Sheet[Len(Sheet)][col] = ""]_vars

\* The currency codes with a listed rate, the local one apart.
ForeignCodes == DOMAIN EXCHANGE_RATES \ {"THB"}

\* The code of a raw record as it is looked up: upper case, the local
\* currency when the record has none.
CodeOf(raw) == IF Falsy(raw.currency_code) THEN "THB" ELSE toUpperCase(raw.currency_code)

\* The draft d holds the amount of raw converted at the listed rate, to the
\* nearest hundredth, and the original amount, currency and rate.
IsConverted(raw, d) ==
    LET a == raw.amount_before_vat
        r == EXCHANGE_RATES[CodeOf(raw)]
    IN  /\ \E n \in 0..(a * r) :
               /\ 100 * n - a * r \in -50..50
               /\ d.amount_before_vat = Decimal(n)
        /\ d.conversionInfo = [originalCurrency |-> CodeOf(raw), originalAmount |-> a,
                               rate |-> r]

IsUnconverted(raw, d) ==
    /\ d.amount_before_vat = Decimal(raw.amount_before_vat)
    /\ d.conversionInfo = Null

LogoutSignsOut ==
    [][/\ lastOp'.op = "logout"
           => user' = Null /\ "app_user" \notin DOMAIN localStorage'
       /\ lastOp.op = "logout" /\ lastOp'.op = "mount"
           => user' = Null /\ "app_user" \notin DOMAIN localStorage']_vars

\* The operations that only the admin panel offers.
PanelOps == {"impersonate", "roleChange", "teamChange"}

\* C26: the admin panel, and with it the list of every user's commissions,
\* is rendered only while the role of the current user is admin, and its
\* operations are taken only then, whatever navigation, impersonations and
\* role changes came before; a confirmed impersonation makes the target
\* profile the current user and shows the dashboard, a declined one leaves
\* the current user and the view as they were.
AdminPanelGuarded ==
    /\ [](AdminPanelShown \/ (ListShown /\ currentView = "admin") => user.role = "admin")
    /\ [][/\ lastOp'.op \in PanelOps
              => AdminPanelShown /\ user.role = "admin"
          /\ lastOp'.op = "impersonate"
              => IF lastOp'.answer = "ok"
                 THEN /\ user' \in Range(profiles) /\ user'.id = lastOp'.id
                      /\ currentView' = "dashboard"
                 ELSE user' = user /\ currentView' = currentView]_vars

\* The administrator made the manager an administrator, logged in as them
\* and, as them, took the administrator role from the first administrator.
AdminPanelGuardedWitness ==
    /\ lastOp.op = "roleChange" /\ lastOp.id = "user-admin" /\ lastOp.value = "user"
    /\ user.id = "user-manager" /\ user.role = "admin" /\ AdminPanelShown
    /\ \E p \in Range(profiles) : p.id = "user-admin" /\ p.role = "user"

Owned == {c \in Range(commissions) : c.user_id = user.id}

\* The entries of the profiles, other than the current user, whose team is
\* the team of the current user.
OfTeamMates ==
    {c \in Range(commissions) :
        \E p \in Range(profiles) :
            p.id = c.user_id /\ p.id # user.id /\ p.team_id = user.team_id}

UpdateFrame ==
    [][lastOp'.op = "inline"
          => /\ Len(commissions') = Len(commissions)
             /\ \A i \in 1..Len(commissions) :
                    /\ commissions'[i].id = commissions[i].id
                    /\ commissions'[i].user_id = commissions[i].user_id
                    /\ commissions[i].id # lastOp'.id => commissions'[i] = commissions[i]
             /\ lastOp'.id \notin ActiveIds
                    => commissions' = commissions /\ localStorage' = localStorage]_vars

\* The administrator changed the amount of the second of the three entries:
\* it has the new amount, and the first and the third are the seeded ones.
UpdateFrameWitness ==
    /\ Applied(lastOp) /\ lastOp.id = "2" /\ lastOp.field = "amount_before_vat"
    /\ Len(commissions) = 3
    /\ commissions[2].id = "2" /\ commissions[2].amount_before_vat = 2000
    /\ commissions[1] = MOCK_ENTRIES[1] /\ commissions[3] = MOCK_ENTRIES[3]

\* C29: the upload queue never holds more than five items, whatever files
\* were dropped or selected and whatever was removed or retried, and every
\* item of the queue is a PDF file.
QueueWithinLimit ==
    /\ Len(queue) <= 5
    /\ \A x \in Range(queue) : x.file.type = "application/pdf"

\* Files were dropped on a queue of five items: none of them was added.
QueueWithinLimitWitness ==
    /\ lastOp.op = "processFiles" /\ lastOp.answer = "none"
    /\ Len(queue) = 5 /\ queueOps = 2

\* The steps of a pipeline.
PipelineOps == {"tick", "parsing", "extracted", "readFailed"}

\* The ids given to the items a step added to the queue.
Minted == {"uuid-" \o ToString(k) : k \in (uuidCounter + 1)..uuidCounter'}

\* C30: a removal takes its item out of the queue; a step of a pipeline
\* whose item is no longer in the queue leaves the queue as it is, any step of
\* a pipeline leaves the items of the other ids as they are, and an id comes
\* into the queue only when it is new, so that a removed item never comes back.
RemovedStaysOut ==
    [][/\ lastOp'.op = "remove" => lastOp'.id \notin Ids(queue')
       /\ (lastOp'.op \in PipelineOps /\ lastOp'.id \notin Ids(queue)) => queue' = queue
       /\ lastOp'.op \in PipelineOps
              => /\ Len(queue') = Len(queue)
                 /\ \A k \in 1..Len(queue) : queue[k].id # lastOp'.id => queue'[k] = queue[k]
       /\ Ids(queue') \ Ids(queue) \subseteq Minted]_vars

\* The first item was removed while its upload went on; the progress loop of
\* its pipeline went on to the end and the extraction was started, and the
\* queue holds the second item only, still at its first step.
RemovedStaysOutWitness ==
    /\ lastOp.op = "parsing" /\ lastOp.id = "uuid-1"
    /\ Len(queue) = 1 /\ queue[1].id = "uuid-2" /\ queue[1].progress = ProgressStep
    /\ \E p \in pipelines : p.id = "uuid-1" /\ p.pc = "extract"

====
